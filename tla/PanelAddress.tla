----------------------------- MODULE PanelAddress -----------------------------
(***************************************************************************)
(* Where the panel listens: the environment file, the stored row with the  *)
(* seed of the last start, and what a start makes of them                  *)
(* (address/address.go, gre-panel/main.go); a change from the browser      *)
(* (api/address.go) and the command line's change, which puts everything   *)
(* back when the panel does not come up (tnp/address.go). Any process may  *)
(* stop between two steps, and systemd starts the panel again.             *)
(***************************************************************************)
EXTENDS Naturals, FiniteSets

CONSTANTS Ports, DefaultPort, Paths, Root,
          Busy,     \* ports other programs may take
          Absent,   \* no line, nothing asked for
          Edited    \* the parts whose lines an operator edits

VARIABLES file,   \* per part, what the environment file says
          row,    \* the stored address and the seed it was resolved against
          panel,  \* the process: where it serves, the file as its start read it
          taken,  \* ports other programs hold
          cli,    \* the command line's change
          meant   \* [address, read, clean]: what was last asked for, by whom the
                  \* file had been read; no part was written that nobody asked for

vars == <<file, row, panel, taken, cli, meant>>

Parts == {"port", "path"}
Value(part) == IF part = "port" THEN Ports ELSE Paths
Default(part) == IF part = "port" THEN DefaultPort ELSE Root
Addresses == [port : Ports, path : Paths]

(* An empty web path in the file says as little as none.                   *)
Written(a) == [port |-> a.port, path |-> IF a.path = Root THEN Absent ELSE a.path]
Seed(f) == [part \in Parts |-> IF f[part] = Absent THEN Default(part) ELSE f[part]]

ResolvePart(r, f, part, flagged) ==
    IF flagged \/ ~r.exists THEN Seed(f)[part]
    ELSE IF f[part] # Absent /\ Seed(f)[part] # r.seed[part] THEN Seed(f)[part]
    ELSE r.address[part]
Resolve(r, f, flagged) == [part \in Parts |-> ResolvePart(r, f, part, part \in flagged)]

BindCandidates(r, f, wanted) == <<wanted, r.lastGood, Seed(f).port, DefaultPort>>
Bindable(c) == {i \in 1..4 : c[i] \in Ports \ taken}

\* Mutant: the seed is set to the new value, not to the file as it was read.
SetAndSeed(address, seen) == row' = [row EXCEPT !.exists = TRUE, !.address = address, !.seed = address]
Set(address, seen) ==
    row' = [row EXCEPT !.exists = TRUE, !.address = address, !.seed = Seed(seen)]

(* What the next start is to serve: the last word, a file that was edited  *)
(* since it was read having it.                                            *)
Expected == IF ~row.exists THEN Seed(file) ELSE [part \in Parts |->
    IF file[part] # Absent /\ Seed(file)[part] # Seed(meant.read)[part] THEN file[part]
    ELSE meant.address[part]]

Mean(address, read) == meant' = [meant EXCEPT !.address = address, !.read = read]

-----------------------------------------------------------------------------
NoCli == [at |-> "idle"]
Down == [up |-> FALSE]

Init == /\ file \in [port : {Absent, CHOOSE p \in Ports : p # DefaultPort}, path : {Absent}]
        /\ row = [exists |-> FALSE, address |-> Seed(file), lastGood |-> Absent, seed |-> Seed(file)]
        /\ panel = Down
        /\ taken = {} /\ cli = NoCli
        /\ meant = [address |-> Seed(file), read |-> file, clean |-> TRUE]

(* Written at every start, with the port that was bound.                   *)
Save(address, lastGood) ==
    row' = [exists |-> TRUE, address |-> address, seed |-> Seed(file), lastGood |-> lastGood]

Disturbed == cli' = IF cli.at = "idle" THEN cli ELSE [cli EXCEPT !.alone = FALSE]

(* The answer is stored before the port is bound. Of a --bind-port flag the*)
(* resolver is told that there was one, and the file's value.              *)
Start(flagged) ==
    LET wanted == Resolve(row, file, IF flagged THEN {"port"} ELSE {})
        tried  == BindCandidates(row, file, wanted.port)
        usable == Bindable(tried)
        bound  == tried[CHOOSE i \in usable : \A j \in usable : i <= j]
    IN /\ ~panel.up
       /\ Save(wanted, IF usable = {} THEN row.lastGood ELSE bound)
       /\ panel' = IF usable = {} THEN panel
                   ELSE [up |-> TRUE, address |-> [wanted EXCEPT !.port = bound], saw |-> file]
       /\ meant' = [address |-> Expected, read |-> file, clean |-> meant.clean /\ ~flagged]
       /\ Disturbed /\ UNCHANGED <<file, taken>>

Stop == /\ panel.up /\ panel' = Down
        /\ UNCHANGED <<file, row, taken, cli, meant>>

MayMoveTo(port, current) == port = current \/ port \notin taken

(* The browser's change; the panel restarts some time after it.            *)
HandleSetAddress(ask) ==
    LET new == [part \in Parts |-> IF ask[part] = Absent THEN panel.address[part] ELSE ask[part]]
    IN /\ panel.up /\ new # panel.address /\ MayMoveTo(new.port, panel.address.port)
       /\ Set(new, panel.saw)
       /\ meant' = [address |-> [part \in Parts |-> IF ask[part] = Absent THEN meant.address[part]
                                                    ELSE ask[part]],
                    read |-> panel.saw,
                    clean |-> meant.clean /\ \A part \in Parts :
                                ask[part] = Absent => new[part] = meant.address[part]]
       /\ Disturbed /\ UNCHANGED <<file, panel, taken>>

(* The operator edits one line of the file.                                *)
EditFile(part, value) ==
    /\ value # file[part] /\ file' = [file EXCEPT ![part] = value]
    /\ Disturbed /\ UNCHANGED <<row, panel, taken, meant>>

PortTaken(p) == /\ ~(panel.up /\ panel.address.port = p)
                /\ taken' = IF taken = {p} THEN {} ELSE {p}
                /\ UNCHANGED <<file, row, panel, cli, meant>>

-----------------------------------------------------------------------------
(* The command line, one step at a time.                                   *)
CliAt(at) == cli.at = at
CliGoes(at) == cli' = [cli EXCEPT !.at = at]

CliStore(want) ==
    LET from == Resolve(row, file, {})
    IN /\ CliAt("idle") /\ want # from /\ MayMoveTo(want.port, from.port)
       /\ Set(want, file) /\ Mean(want, file)
       /\ cli' = [at |-> "stored", want |-> want, from |-> from, old |-> file, alone |-> TRUE]
       /\ UNCHANGED <<file, panel, taken>>

CliWriteFile == /\ CliAt("stored") /\ file' = Written(cli.want) /\ CliGoes("written")
                /\ UNCHANGED <<row, panel, taken, meant>>

CliSync == /\ CliAt("written") /\ Set(cli.want, Written(cli.want)) /\ Mean(cli.want, Written(cli.want))
           /\ CliGoes("synced") /\ UNCHANGED <<file, panel, taken>>

CliRestart == /\ CliAt("synced") /\ panel' = Down /\ CliGoes("waits")
              /\ UNCHANGED <<file, row, taken, meant>>

CliSucceeds == /\ CliAt("waits") /\ panel.up /\ panel.address = cli.want /\ cli' = NoCli
               /\ UNCHANGED <<file, row, panel, taken, meant>>

(* No answer in time, even from a panel that would have given one.         *)
CliUndo == /\ CliAt("waits") /\ Set(cli.from, cli.old) /\ Mean(cli.from, cli.old)
           /\ cli' = [cli EXCEPT !.at = "undoes", !.alone = TRUE]
           /\ UNCHANGED <<file, panel, taken>>

CliRestoreFile == /\ CliAt("undoes") /\ file' = cli.old /\ CliGoes("undone")
                  /\ UNCHANGED <<row, panel, taken, meant>>

CliEnds == /\ cli.at = "undone" /\ panel' = Down /\ cli' = NoCli
           /\ UNCHANGED <<file, row, taken, meant>>

CliKilled == /\ cli.at # "idle" /\ cli' = NoCli /\ UNCHANGED <<file, row, panel, taken, meant>>

(* A bound: nothing follows a write of what nobody asked for.              *)
Next == meant.clean /\
     (  \/ \E flagged \in BOOLEAN : Start(flagged)
        \/ Stop
        \/ \E ask \in [port : Ports \cup {Absent}, path : Paths \cup {Absent}] : HandleSetAddress(ask)
        \/ \E part \in Edited : \E value \in (Value(part) \ {Root}) \cup {Absent} : EditFile(part, value)
        \/ \E p \in Busy : PortTaken(p)
        \/ \E want \in Addresses : CliStore(want)
        \/ CliWriteFile \/ CliSync \/ CliRestart \/ CliSucceeds
        \/ CliUndo \/ CliRestoreFile \/ CliEnds \/ CliKilled )

-----------------------------------------------------------------------------
(* Whatever was asked for last is what the next start serves, and a file   *)
(* nobody edited since it was read never takes a change back.              *)
LastWordIsKept == meant.clean => Resolve(row, file, {}) = Expected

(* A change that was rolled back, nobody else writing meanwhile, leaves    *)
(* the panel where it was.                                                 *)
RollbackRestores == cli.at = "undone" /\ cli.alone => Resolve(row, file, {}) = cli.from

AddressIsKept == LastWordIsKept /\ RollbackRestores

-----------------------------------------------------------------------------
(* Why: a stored address is the last word and its seed the file as it was  *)
(* read for it; a rollback that is alone has put back one, then the other. *)
MeantIsStored == meant.clean /\ row.exists =>
    \A part \in Parts : /\ row.seed[part] = Seed(meant.read)[part]
                        /\ row.address[part] = meant.address[part]
UndoIsStored == cli.at \in {"undoes", "undone"} /\ cli.alone =>
    /\ row.exists /\ \A part \in Parts : /\ row.seed[part] = Seed(cli.old)[part]
                                       /\ row.address[part] = cli.from[part]
    /\ cli.at = "undone" => file = cli.old
AddressKnown ==
    /\ row = [exists |-> row.exists, address |-> row.address, lastGood |-> row.lastGood,
              seed |-> row.seed]
    /\ meant = [address |-> meant.address, read |-> meant.read, clean |-> meant.clean]
    /\ cli.at \in {"stored", "written", "synced", "waits", "undoes", "undone"} =>
          /\ cli = [at |-> cli.at, want |-> cli.want, from |-> cli.from, old |-> cli.old,
                    alone |-> cli.alone]
          /\ cli.from = [part \in Parts |-> cli.from[part]]
AddressInv == AddressKnown /\ MeantIsStored /\ UndoIsStored
=============================================================================
