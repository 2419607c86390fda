---------------------------- MODULE MCConnection ---------------------------
(* The connection in two halves: a connection file that names its network,   *)
(* over sleeps of the machine; and one that leaves the choice to the dialog, *)
(* over what other runs left in the kernel and leaving the program.          *)
EXTENDS Connection

MCStateBytes == [p \in Pages |-> 1]
MCArgBytes == [p \in Pages |-> 0]
MCLeftUp == {{}, {"inet", "apctl"}}

\* The second half's worlds: nothing left and the switch off, a dialog left,
\* the stack's layers left.
MCInit ==
  /\ ConnectionInit
  /\ fileProfile = 1 => wlan /\ dialog = "none" /\ inet = "down"
  /\ fileProfile = 0 =>
       /\ wlan <=> ~(dialog = "none" /\ inet = "down")
       /\ dialog # "none" => inet = "down"

\* The bounds: in the first half the kernel has no room for the dialog, and the
\* program is not left; in the second the machine does
\* not sleep and the radio keeps what it joined.
Bounds ==
  /\ fileProfile = 1 => g_quit' = g_quit /\ dialog' = "none"
  /\ fileProfile = 0 => epoch' = epoch /\ (World => ~RadioGone)

MCNext == ConnectionNext /\ Bounds
MCSpec == MCInit /\ [][MCNext]_connectionVars
MCFairSpec == MCSpec /\ WF_connectionVars(WorkerStep)

=============================================================================
