---------------------------- MODULE DurableCoins ----------------------------
(***************************************************************************)
(* What the chain state on disk promises: the coins the node works with    *)
(* are those of its tip, and after a crash it comes back with the coins of *)
(* the last tip it decided to flush, never with a mixture.                 *)
(***************************************************************************)
EXTENDS BlockCoins

CONSTANT Down      \* the tip of a node that is not running

VARIABLES
  dTip,       \* the best block of the running node, or Down
  dCoins,     \* the coins it sees
  dDurable    \* the block a restarted node starts from

durableVars == <<dTip, dCoins, dDurable>>

DurableInit ==
  /\ dTip = Genesis
  /\ dCoins = Utxo[Genesis]
  /\ dDurable = Genesis

(* The tip moves to a child or to the parent.                              *)
MoveTip(b) ==
  /\ dTip # Down
  /\ \/ b # Genesis /\ Parent[b] = dTip
     \/ dTip # Genesis /\ b = Parent[dTip]
  /\ dTip' = b
  /\ dCoins' = Utxo[b]
  /\ UNCHANGED dDurable

Persist ==
  /\ dTip # Down
  /\ dDurable' = dTip
  /\ UNCHANGED <<dTip, dCoins>>

Stop ==
  /\ dTip # Down
  /\ dTip' = Down
  /\ dCoins' = Utxo[Genesis]
  /\ UNCHANGED dDurable

Recover ==
  /\ dTip = Down
  /\ dTip' = dDurable
  /\ dCoins' = Utxo[dDurable]
  /\ UNCHANGED dDurable

DurableNext ==
  \/ \E b \in Blocks : MoveTip(b)
  \/ Persist \/ Stop \/ Recover

DurableSpec == DurableInit /\ [][DurableNext]_durableVars
=============================================================================
