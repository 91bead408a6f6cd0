----------------------------- MODULE SharedMutex -----------------------------
(***************************************************************************)
(* What WPUSMutex promises its users, without condition variables and      *)
(* counters: shared and exclusive locks, an upgrade that leaves no gap,    *)
(* requests to write that keep new readers out, and an upgrade that gives  *)
(* up only in favour of another request.                                   *)
(***************************************************************************)
CONSTANT Threads

VARIABLES
  held,      \* what each thread holds: "unlocked", "read" or "write"
  wanting,   \* threads whose request to write has not been answered
  refused    \* threads whose upgrade was refused; they still hold "read"

mutexVars == <<held, wanting, refused>>

MutexInit ==
  /\ held = [t \in Threads |-> "unlocked"]
  /\ wanting = {}
  /\ refused = {}

Alone(t) == \A u \in Threads \ {t} : held[u] = "unlocked"

AcquireRead(t) ==
  /\ held[t] = "unlocked" /\ t \notin wanting
  /\ wanting = {}
  /\ \A u \in Threads : held[u] # "write"
  /\ held' = [held EXCEPT ![t] = "read"]
  /\ UNCHANGED <<wanting, refused>>

RequestWrite(t) ==
  /\ held[t] # "write" /\ t \notin wanting \union refused
  /\ wanting' = wanting \union {t}
  /\ UNCHANGED <<held, refused>>

(* Granted at once or after a wait.                                        *)
AcquireWrite(t) ==
  /\ held[t] # "write" /\ t \notin refused
  /\ Alone(t)
  /\ held' = [held EXCEPT ![t] = "write"]
  /\ wanting' = wanting \ {t}
  /\ UNCHANGED refused

(* An upgrade is refused only while another thread wants to write.         *)
Refuse(t) ==
  /\ held[t] = "read" /\ t \notin refused
  /\ wanting \ {t} # {}
  /\ wanting' = wanting \ {t}
  /\ refused' = refused \union {t}
  /\ UNCHANGED held

DowngradeToRead(t) ==
  /\ held[t] = "write"
  /\ held' = [held EXCEPT ![t] = "read"]
  /\ UNCHANGED <<wanting, refused>>

Unlock(t) ==
  /\ held[t] # "unlocked" /\ t \notin wanting
  /\ held' = [held EXCEPT ![t] = "unlocked"]
  /\ refused' = refused \ {t}
  /\ UNCHANGED wanting

MutexNext ==
  \E t \in Threads :
    \/ AcquireRead(t) \/ RequestWrite(t) \/ AcquireWrite(t) \/ Refuse(t)
    \/ DowngradeToRead(t) \/ Unlock(t)

MutexSpec == MutexInit /\ [][MutexNext]_mutexVars
=============================================================================
