-------------------------------- MODULE MCForms --------------------------------
(***************************************************************************)
(* Two forms whose answers may be lost or come late, in one run: that of   *)
(* a one-time secret, of two creations, and that of the import of a file   *)
(* into the admin panel, of two files.  A behaviour is of one part.        *)
(***************************************************************************)
EXTENDS Secrets, ImportPlan, TLC

CONSTANTS
  Places, Ceiling, Faults, MaxPicks, MaxRuns, MaxFaults,
  s1, s2, m1, r1, p1, p2, k1, k2

VARIABLES
  part, picks, reading, panel, runs, keys, minted, stored, late, faults, abandoned, unread

importVars == <<picks, reading, panel, runs, keys, minted, stored, late, faults, abandoned, unread>>

I == INSTANCE Import WITH rows <- stored

ASSUME ImportAssumption ==
  /\ Faults \subseteq I!AllFaults
  /\ {Places, Ceiling, MaxPicks, MaxRuns, MaxFaults} \subseteq Nat

(* Cap 32 puts content of 8 bytes at the limit (24 bytes sealed are 32     *)
(* characters) and of 9 bytes just over it.                                *)
SetLengths == {8, 9}

(* A file with a folder that holds a bookmark and a folder, a link that is *)
(* skipped and a bookmark at the top; and a file with nothing to import.   *)
Folder(d) == [depth |-> d, kind |-> "folder"]
Bookmark(d) == [depth |-> d, kind |-> "bookmark"]
Link(d) == [depth |-> d, kind |-> "skipped"]
TwoFiles == <<<<Folder(0), Bookmark(1), Link(1), Folder(1), Bookmark(0)>>, <<Link(0)>>>>

FormsInit == part \in {"secrets", "import"} /\ Init /\ I!Init
FormsNext ==
  \/ part = "secrets" /\ Next /\ UNCHANGED <<part, importVars>>
  \/ part = "import" /\ I!Next /\ UNCHANGED <<part, vars>>
FormsSpec ==
  /\ FormsInit /\ [][FormsNext]_<<part, vars, importVars>>
  /\ \A k \in Lines : WF_vars(part = "secrets" /\ onSecretRead(k))
  /\ \A r \in 1 .. MaxRuns : WF_importVars(part = "import" /\ r \in DOMAIN runs /\ I!Step(r))

(* Of the two secrets one may be locked by a passphrase or mailed.         *)
OneSent == ~creating[s2].wrapped /\ mails[m1].link.token # s2

(* Every link that leaves the window opens its secret, a secret is read     *)
(* only by one who held its key, its burn is confirmed once, and no form    *)
(* sends what the service would refuse: see Secrets.                        *)
SecretsHold == LinkOpens /\ ReadWasShown /\ ConfirmedOnce /\ LimitsAgree

(* An import stores each item once, under the right row and in the order   *)
(* of the file, and tells what became of it; and its runs end: see Import. *)
ItemsInPlace == I!OnceUnlessAbandoned /\ I!NestedAsTheFile /\ I!InFileOrder /\ I!Accounted
RunsEnd == I!RunsEnd
================================================================================
