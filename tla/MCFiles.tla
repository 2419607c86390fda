------------------------------ MODULE MCFiles ------------------------------
(*****************************************************************************)
(* What is kept outside memory, side by side: the pack of pictures and the   *)
(* settings on the card, the log on the card, the sleep of the machine, and  *)
(* the cable's queues, reads and commands. `part` says which one a behaviour *)
(* is of; the others stay as they begin.                                     *)
(*****************************************************************************)
EXTENDS Pack, Link, Card, TLC

CONSTANTS a, b, c, d    \* pictures

VARIABLE part

\* Two pictures that fit over one another exactly, a longer and a longest one,
\* whose tails outlast what is put over them.
MCRows == a :> 1 @@ d :> 1 @@ b :> 2 @@ c :> 3
MCSteps == <<4, 6, 9>>

filesVars == <<part, packVars, linkVars, slurpVars, remoteVars, logVars, prefsVars>>

FilesInit ==
    /\ part \in {"pack", "standby", "link", "slurp", "remote", "log", "prefs"}
    /\ PackInit /\ LinkInit /\ SlurpInit /\ RemoteInit /\ LogInit /\ PrefsInit
    /\ part # "remote" => /\ cmdFile = Absent /\ ackFile = 0
                          /\ sample.seq = 1 /\ sample.word = "known"
    /\ part = "remote" => ackFile = MaxSeq
    /\ part # "log" => toCard
    /\ part # "prefs" => prefFile = NoFile

PackPart ==
    /\ part = "pack" /\ PackNext
    /\ UNCHANGED <<part, linkVars, slurpVars, remoteVars, logVars, prefsVars>>

StandbyPart ==
    /\ part = "standby" /\ StandbyNext
    /\ UNCHANGED <<part, lineVars, paused, writeOk, cable>>
    /\ UNCHANGED <<packVars, slurpVars, remoteVars, logVars, prefsVars>>

InLink(A) ==
    /\ part = "link" /\ A
    /\ UNCHANGED <<part, packVars, slurpVars, remoteVars, logVars, prefsVars>>

SlurpPart ==
    /\ part = "slurp" /\ SlurpNext
    /\ UNCHANGED <<part, packVars, linkVars, remoteVars, logVars, prefsVars>>

InRemote(A) ==
    /\ part = "remote" /\ A
    /\ UNCHANGED <<part, packVars, linkVars, slurpVars, logVars, prefsVars>>

LogPart ==
    /\ part = "log" /\ LogNext
    /\ UNCHANGED <<part, packVars, linkVars, slurpVars, remoteVars, prefsVars>>

PrefsPart ==
    /\ part = "prefs" /\ PrefsNext
    /\ UNCHANGED <<part, packVars, linkVars, slurpVars, remoteVars, logVars>>

FilesNext ==
    \/ PackPart \/ StandbyPart \/ InLink(LinkNext) \/ SlurpPart
    \/ InRemote(RemoteNext) \/ LogPart \/ PrefsPart

\* What Link states, in their parts.
FilesFairness ==
    /\ WF_linkVars(part = "link" /\ Thread) /\ WF_linkVars(part = "link" /\ Look)
    /\ WF_linkVars(part = "link" /\ Say) /\ WF_linkVars(part = "link" /\ CableBack)
    /\ WF_linkVars(part = "link" /\ Sleep)
    /\ WF_remoteVars(part = "remote" /\ Watch) /\ WF_remoteVars(part = "remote" /\ Puts)
    /\ WF_remoteVars(part = "remote" /\ Loop)

FilesSpec == FilesInit /\ [][FilesNext]_filesVars /\ FilesFairness

\* What the cable is asked ends: a script's commands are answered, and after a
\* sleep the loop is up again (see CommandsAreAnswered and DownIsLeft).
CableAnswers == CommandsAreAnswered /\ (part = "link" => DownIsLeft)

=============================================================================
