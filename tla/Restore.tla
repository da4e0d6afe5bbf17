-------------------------------- MODULE Restore --------------------------------
(***************************************************************************)
(* Replacing the panel's database: an upload from the browser, under the   *)
(* panel that serves it (api/dbbackup.go), or `tnp restore`, which stops   *)
(* the panel first (tnp/backup.go), over backup.Install.  A file is an     *)
(* inode: whoever opened it keeps it when its name goes to another.  Any   *)
(* process may end between two steps.                                      *)
(***************************************************************************)
EXTENDS Naturals, FiniteSets

CONSTANTS Uploads,   \* requests of the browser
          Cli,       \* the command
          MaxFiles,  \* inodes
          MaxInstalls
Nobody == 0

VARIABLES names,     \* live, previous, staged, incoming: the inode of each name, or 0
          disk,      \* per inode: whose bytes it holds, whether they are a usable database,
                     \* whether all it was told is in the file
          log,       \* the inode the write-ahead log beside the live name belongs to, or 0
          panel,     \* up, and the inode it has open
          work,      \* per restore: where it stands, the inode it writes, what it was given
          hist       \* restores begun, the last that was answered, whether one met another

vars == <<names, disk, log, panel, work, hist>>

Original == 1
Files  == 1..MaxFiles
Actors == Uploads \cup {Cli}
Idle   == [at |-> "idle", file |-> 0, good |-> FALSE]
Blank  == [by |-> {}, torn |-> FALSE, good |-> FALSE, complete |-> TRUE]
Source(a) == IF a = Cli THEN "incoming" ELSE "staged"

Named == {names.live, names.previous, names.staged, names.incoming}
Open  == {panel.on} \cup {work[a].file : a \in Actors}
Free  == {f \in Files : f \notin Named \cup Open}
NewFile == CHOOSE f \in Free : \A g \in Free : f <= g

Init == /\ names = [live |-> Original, previous |-> 0, staged |-> 0, incoming |-> 0]
        /\ disk = [f \in Files |-> IF f = Original THEN [Blank EXCEPT !.by = {Nobody}, !.good = TRUE]
                                   ELSE Blank]
        /\ log = 0 /\ panel = [up |-> TRUE, on |-> Original]
        /\ work = [a \in Actors |-> Idle]
        /\ hist = [installs |-> 0, last |-> Nobody, met |-> FALSE]

AtWork == {a \in Actors : work[a].at # "idle"}
(* Restores that may begin, at most two at a time (a bound).               *)
Begins == Cardinality(AtWork) < 2 /\ hist.installs < IF hist.met THEN 1 ELSE MaxInstalls
Installing == {a \in Actors : work[a].at \in {"aside", "cleared"}}
Meets(others) == IF others = {} THEN hist ELSE [hist EXCEPT !.met = TRUE]
Goes(a, at) == work' = [work EXCEPT ![a].at = at]

(* An upload that is refused removes the staged name, whoever wrote it.    *)
Refused(u) == /\ work' = [work EXCEPT ![u] = Idle]
              /\ names' = [names EXCEPT !.staged = 0]
              /\ UNCHANGED <<disk, log, panel, hist>>

-----------------------------------------------------------------------------
(* The upload is written beside the live database, under one name for all. *)
Stage(u, good) ==
    LET new == names.staged = 0
        f   == IF new THEN NewFile ELSE names.staged
    IN /\ panel.up /\ work[u].at = "idle" /\ Begins
       /\ new => Free # {}
       /\ names' = [names EXCEPT !.staged = f]
       /\ disk' = [disk EXCEPT ![f] = [Blank EXCEPT
                     !.torn = \E v \in Uploads : work[v].at = "writing" /\ work[v].file = f]]
       /\ work' = [work EXCEPT ![u] = [at |-> "writing", file |-> f, good |-> good]]
       /\ hist' = Meets(AtWork) /\ UNCHANGED <<log, panel>>

CopyInto(u) ==
    /\ work[u].at = "writing"
    /\ \/ /\ disk' = [disk EXCEPT ![work[u].file].by = @ \cup {u},
                                  ![work[u].file].good = work[u].good]
          /\ work' = [work EXCEPT ![u] = [Idle EXCEPT !.at = "written"]]
          /\ UNCHANGED <<names, log, panel, hist>>
       \/ Refused(u)

(* Bytes of two uploads, or half of one, may look like a database.         *)
Whole(f)  == ~disk[f].torn /\ \E a \in Actors \cup {Nobody} : disk[f].by = {a}
Usable(f) == Whole(f) /\ disk[f].good
Verify(u) == /\ work[u].at = "written"
             /\ LET f == names.staged
                IN \/ f # 0 /\ (Whole(f) => disk[f].good) /\ Goes(u, "verified")
                      /\ UNCHANGED <<names, disk, log, panel, hist>>
                   \/ ~(f # 0 /\ Usable(f)) /\ Refused(u)

-----------------------------------------------------------------------------
(* Install, one step at a time. It fails when the uploaded file is not     *)
(* there, before the first step or at the last.                            *)
Fails(a) == /\ work' = [work EXCEPT ![a] = Idle] /\ UNCHANGED <<names, disk, log, panel, hist>>

\* Mutant: the uploaded file is renamed over the live one.
SetAsideNothing(a) ==
    /\ work[a].at = "verified" /\ names[Source(a)] # 0 /\ Goes(a, "aside")
    /\ hist' = [hist EXCEPT !.installs = @ + 1] /\ UNCHANGED <<names, disk, log, panel>>
SetAside(a) ==
    /\ work[a].at = "verified" /\ names[Source(a)] # 0 /\ Goes(a, "aside")
    /\ names' = IF names.live = 0 THEN names
                ELSE [names EXCEPT !.previous = names.live, !.live = 0]
    /\ hist' = [hist EXCEPT !.installs = @ + 1] /\ UNCHANGED <<disk, log, panel>>

ClearLog(a) == /\ work[a].at = "aside" /\ log' = 0 /\ Goes(a, "cleared")
               /\ UNCHANGED <<names, disk, panel, hist>>

Place(a) ==
    /\ work[a].at = "cleared" /\ names[Source(a)] # 0 /\ Goes(a, "placed")
    /\ names' = [names EXCEPT !.live = names[Source(a)], ![Source(a)] = 0]
    /\ hist' = [hist EXCEPT !.last = a] /\ UNCHANGED <<disk, log, panel>>

NotThere(a) == /\ work[a].at \in {"verified", "cleared"} /\ names[Source(a)] = 0 /\ Fails(a)

(* The answer, and the record in the database the panel still has open.    *)
Answer(u) == /\ work[u].at = "placed"
             /\ disk' = [disk EXCEPT ![panel.on].complete = FALSE]
             /\ work' = [work EXCEPT ![u] = Idle]
             /\ UNCHANGED <<names, log, panel, hist>>

-----------------------------------------------------------------------------
(* The panel. What it commits is in the log until a checkpoint, which the  *)
(* last close makes when the file is still where it was.                   *)
Commit == /\ panel.up /\ disk[panel.on].complete
          /\ disk' = [disk EXCEPT ![panel.on].complete = FALSE]
          /\ log' = IF names.live = panel.on THEN panel.on ELSE log
          /\ UNCHANGED <<names, panel, work, hist>>

Checkpointed == [disk EXCEPT ![panel.on].complete = TRUE]
Checkpoint == /\ panel.up /\ ~disk[panel.on].complete /\ disk' = Checkpointed
              /\ UNCHANGED <<names, log, panel, work, hist>>

(* A stop ends the requests under way.                                     *)
Ends == /\ panel.up /\ panel' = [up |-> FALSE, on |-> 0]
        /\ work' = [a \in Actors |-> IF a = Cli THEN work[a] ELSE Idle]
        /\ hist' = Meets(Installing \cap Uploads) /\ UNCHANGED names
Closes == \/ disk' = Checkpointed /\ log' = IF log = panel.on THEN 0 ELSE log
          \/ names.live # panel.on /\ UNCHANGED <<disk, log>>
Stop  == Ends /\ Closes
Crash == Ends /\ UNCHANGED <<disk, log>>

(* A name that is not there is created, with the tables and no account.    *)
Start ==
    LET f == IF names.live = 0 THEN NewFile ELSE names.live
    IN /\ ~panel.up /\ (names.live = 0 => Free # {})
       /\ panel' = [up |-> TRUE, on |-> f]
       /\ names' = [names EXCEPT !.live = f]
       /\ disk' = IF names.live = 0 THEN [disk EXCEPT ![f] = [Blank EXCEPT !.by = {Nobody}]]
                  ELSE [disk EXCEPT ![f].complete = @ \/ log = f]
       /\ log' = 0
       /\ hist' = Meets({a \in AtWork : work[a].at \notin {"asked", "placed"}}) /\ UNCHANGED work

-----------------------------------------------------------------------------
(* tnp restore.                                                            *)
CliVerify == /\ work[Cli].at = "idle" /\ Begins /\ Goes(Cli, "asked")
             /\ hist' = Meets(AtWork) /\ UNCHANGED <<names, disk, log, panel>>

CliStop == /\ work[Cli].at = "asked"
           /\ IF panel.up
              THEN /\ panel' = [up |-> FALSE, on |-> 0] /\ Closes
                   /\ work' = [a \in Actors |-> IF a = Cli THEN [work[a] EXCEPT !.at = "stopped"] ELSE Idle]
                   /\ hist' = Meets(Installing)
              ELSE Goes(Cli, "stopped") /\ UNCHANGED <<disk, log, panel, hist>>
           /\ UNCHANGED names

CliCopy == /\ work[Cli].at = "stopped" /\ (names.incoming = 0 => Free # {})
           /\ LET f == IF names.incoming = 0 THEN NewFile ELSE names.incoming
              IN /\ names' = [names EXCEPT !.incoming = f]
                 /\ disk' = [disk EXCEPT ![f] = [Blank EXCEPT !.by = {Cli}, !.good = TRUE]]
           /\ Goes(Cli, "verified") /\ UNCHANGED <<log, panel, hist>>

CliStart == work[Cli].at = "placed" /\ panel.up /\ Fails(Cli)

CliKilled == /\ work[Cli].at # "idle" /\ work' = [work EXCEPT ![Cli] = Idle]
             /\ hist' = Meets({Cli} \cap Installing) /\ UNCHANGED <<names, disk, log, panel>>

Next == \/ \E u \in Uploads : \/ \E good \in BOOLEAN : Stage(u, good)
                              \/ CopyInto(u) \/ Verify(u) \/ Answer(u)
        \/ \E a \in Actors : SetAside(a) \/ ClearLog(a) \/ Place(a) \/ NotThere(a)
        \/ Commit \/ Checkpoint \/ Stop \/ Crash \/ Start
        \/ CliVerify \/ CliStop \/ CliCopy \/ CliStart \/ CliKilled

-----------------------------------------------------------------------------
(* The database the panel had is there until a second restore begins; what *)
(* the next start opens is a whole database with an account, the one of    *)
(* the last restore that was answered. The second part is only promised    *)
(* while no restore met another, or a start of the panel in its middle,    *)
(* and none was cut off between its renames.                               *)
RestoreIsSafe ==
    /\ hist.installs < 2 => Original \in {names.live, names.previous}
    /\ ~hist.met /\ Installing = {} =>
          /\ names.live # 0 /\ Usable(names.live)
          /\ disk[names.live].by = {hist.last}
    /\ ~hist.met /\ panel.up => Usable(panel.on)

-----------------------------------------------------------------------------
(* Why: the first restore moves the original aside and only a second moves *)
(* it on; and while no restore met another the one at work owns its file,  *)
(* which nobody serves, and what is served or will be is whole.            *)
Own(f, a) == disk[f].by = {a} /\ ~disk[f].torn /\ disk[f].good
InFiles(f) == f \in Files \cup {0}
Stages(a) == IF a = Cli THEN {"idle", "asked", "stopped", "verified", "aside", "cleared", "placed"}
             ELSE {"idle", "writing", "written", "verified", "aside", "cleared", "placed"}

RestoreKnown ==
    /\ names = [live |-> names.live, previous |-> names.previous, staged |-> names.staged,
                incoming |-> names.incoming]
    /\ InFiles(names.live) /\ InFiles(names.staged) /\ InFiles(names.incoming)
    /\ disk = [f \in Files |-> disk[f]]
    /\ \A f \in Files : disk[f] = [by |-> disk[f].by, torn |-> disk[f].torn, good |-> disk[f].good,
                                   complete |-> disk[f].complete]
    /\ panel = [up |-> panel.up, on |-> panel.on]
    /\ IF panel.up THEN panel.on \in Files ELSE panel.on = 0
    /\ work = [a \in Actors |-> work[a]]
    /\ \A a \in Actors : /\ work[a] = [at |-> work[a].at, file |-> work[a].file, good |-> work[a].good]
                         /\ work[a].at \in Stages(a)
    /\ \A u \in Uploads : work[u].at # "idle" => panel.up
    /\ hist = [installs |-> hist.installs, last |-> hist.last, met |-> hist.met]
    /\ hist.installs \in Nat /\ hist.last \in Actors \cup {Nobody}
OriginalKept ==
    /\ hist.installs = 0 => names.live = Original
    /\ hist.installs = 1 => names.previous = Original
    /\ \A a \in Actors : work[a].at \in {"aside", "cleared", "placed"} => hist.installs # 0

OwnsItsFile(a) ==
    /\ work[a].at = "writing" => /\ names[Source(a)] = work[a].file /\ work[a].file # 0
                                 /\ disk[work[a].file].by = {} /\ ~disk[work[a].file].torn
    /\ work[a].at = "written" => /\ names[Source(a)] # 0 /\ ~disk[names[Source(a)]].torn
                                 /\ disk[names[Source(a)]].by = {a}
    /\ work[a].at \in {"verified", "aside", "cleared"} =>
          names[Source(a)] # 0 /\ Own(names[Source(a)], a)
Undisturbed ==
    /\ \A a, b \in Actors : work[a].at # "idle" /\ work[b].at # "idle" => a = b
    /\ work[Cli].at \in {"stopped", "verified", "aside", "cleared"} => ~panel.up
    /\ \A f \in {names.staged, names.incoming} \ {0} : f # names.live /\ f # panel.on
    /\ names.staged # 0 => names.staged # names.incoming
    /\ \A a \in Actors : OwnsItsFile(a)
    /\ Installing = {} => names.live # 0 /\ Own(names.live, hist.last)
    /\ panel.up => Usable(panel.on)
RestoreInv == RestoreKnown /\ OriginalKept /\ (~hist.met => Undisturbed)
=============================================================================
