------------------------------ MODULE BackupLink ------------------------------
(***************************************************************************)
(* The time-limited link to the database: asked for in the browser         *)
(* (api/dbbackup.go) and on the command line (tnp/backup.go), both over    *)
(* backup/grant.go. A request reads the clock once, looks for a live link  *)
(* twice, and only then inserts one. Only a hash of the token is kept.     *)
(***************************************************************************)
EXTENDS Naturals

CONSTANTS Askers,    \* requests for a link
          Loads,     \* downloads
          MaxLinks,  \* links issued
          Window,    \* how long a link lives
          MaxTime
NoToken == 0

VARIABLES now, rows,  \* the time, BackupGrant by token
          asks,       \* per request: where it stands, its time, whether it saw a live link
          loads,      \* per download: where it stands and its token
          told,       \* tokens shown, answers that a link is out while none is
          ended,      \* tokens whose window passed, tokens that were revoked
          met         \* two requests for a link overlapped

vars == <<now, rows, asks, loads, told, ended, met>>

Tokens == 1..MaxLinks
NoRow  == [exists |-> FALSE, deleted |-> FALSE, expires |-> 0, downloads |-> 0]
NoAsk  == [at |-> "idle", now |-> 0, reused |-> FALSE]
NoLoad == [at |-> "idle", token |-> NoToken]

Init == /\ now = 0 /\ rows = [t \in Tokens |-> NoRow]
        /\ asks = [a \in Askers |-> NoAsk] /\ loads = [d \in Loads |-> NoLoad]
        /\ told = [shown |-> {}, wrongly |-> FALSE] /\ ended = [lapsed |-> {}, revoked |-> {}] /\ met = FALSE

\* Mutant: a revoked link still counts as out.
LiveOrRevoked(time) == {t \in Tokens : rows[t].exists /\ rows[t].expires > time}
Live(time) == {t \in Tokens : rows[t].exists /\ ~rows[t].deleted /\ rows[t].expires > time}

(* The handler looks whether the link it will show is one that is out.     *)
HandleBackupLink(a) ==
    /\ asks[a].at = "idle"
    /\ asks' = [asks EXCEPT ![a] = [at |-> "looked", now |-> now, reused |-> Live(now) # {}]]
    /\ met' = (met \/ \E b \in Askers : asks[b].at # "idle")
    /\ UNCHANGED <<now, rows, loads, told, ended>>

(* The link that is out is given back, without its token. The handler says *)
(* so only if it had seen it.                                              *)
IssueFinds(a) ==
    /\ asks[a].at = "looked" /\ Live(asks[a].now) # {}
    /\ asks' = [asks EXCEPT ![a] = NoAsk]
    /\ told' = IF asks[a].reused
               THEN [told EXCEPT !.wrongly = @ \/ Live(asks[a].now) \subseteq ended.revoked]
               ELSE [told EXCEPT !.shown = @ \cup {NoToken}]
    /\ UNCHANGED <<now, rows, loads, ended, met>>

IssueFindsNone(a) ==
    /\ asks[a].at = "looked" /\ Live(asks[a].now) = {}
    /\ asks' = [asks EXCEPT ![a].at = "inserts"]
    /\ UNCHANGED <<now, rows, loads, told, ended, met>>

IssueInserts(a) ==
    LET fresh == {t \in Tokens : t \notin told.shown /\ ~rows[t].exists}
        token == CHOOSE t \in fresh : \A s \in fresh : t <= s
    IN /\ asks[a].at = "inserts" /\ fresh # {}
       /\ rows' = [rows EXCEPT ![token] = [NoRow EXCEPT !.exists = TRUE, !.expires = asks[a].now + Window]]
       /\ asks' = [asks EXCEPT ![a] = NoAsk]
       /\ told' = [told EXCEPT !.shown = @ \cup {token}]
       /\ ended' = IF asks[a].now + Window > now THEN ended
                   ELSE [ended EXCEPT !.lapsed = @ \cup {token}]
       /\ UNCHANGED <<now, loads, met>>

Ended  == ended.lapsed \cup ended.revoked
Issued == {t \in Tokens : rows[t].exists}

Revoke == /\ rows' = [t \in Tokens |-> IF rows[t].exists THEN [rows[t] EXCEPT !.deleted = TRUE] ELSE rows[t]]
          /\ ended' = [ended EXCEPT !.revoked = @ \cup Issued] /\ UNCHANGED <<now, asks, loads, told, met>>

(* The row is read and its expiry compared; then the download is counted   *)
(* (two per link, a bound), the snapshot taken and served.                 *)
Redeem(d, token) ==
    /\ loads[d].at = "idle" /\ token \in Live(now) /\ rows[token].downloads < 2
    /\ loads' = [loads EXCEPT ![d] = [at |-> IF token \in Ended THEN "late" ELSE "counts", token |-> token]]
    /\ UNCHANGED <<now, rows, asks, told, ended, met>>

Counted(d) == /\ loads[d].at = "counts" /\ loads' = [loads EXCEPT ![d] = NoLoad]
              /\ rows' = [rows EXCEPT ![loads[d].token].downloads =
                                     IF rows[loads[d].token].exists THEN @ + 1 ELSE @]
              /\ UNCHANGED <<now, asks, told, ended, met>>

Sweep == /\ rows' = [t \in Tokens |-> IF rows[t].expires <= now THEN NoRow ELSE rows[t]]
         /\ rows' # rows /\ UNCHANGED <<now, asks, loads, told, ended, met>>

Tick == /\ now < MaxTime /\ now' = now + 1
        /\ ended' = [ended EXCEPT !.lapsed = @ \cup {t \in Issued : rows[t].expires <= now + 1}]
        /\ UNCHANGED <<rows, asks, loads, told, met>>

Next == \/ \E a \in Askers : HandleBackupLink(a) \/ IssueFinds(a) \/ IssueFindsNone(a) \/ IssueInserts(a)
        \/ \E d \in Loads : Counted(d) \/ \E t \in Tokens : Redeem(d, t)
        \/ Revoke \/ Sweep \/ Tick

-----------------------------------------------------------------------------
(* A link that was shown opens the database until its window passes or it  *)
(* is revoked, and never after; an operator who is told a link is out is   *)
(* told so of one that still opens, or that lapsed while the request was   *)
(* at work; and unless two requests overlapped there is one at most, and   *)
(* every link that was shown has its token.                                *)
LinksAreSound ==
    /\ \A t \in told.shown \ {NoToken} : t \in Live(now) <=> t \notin Ended
    /\ \A d \in Loads : loads[d].at # "late"
    /\ ~met => /\ \A s, t \in Live(now) : s = t
               /\ NoToken \notin told.shown
    /\ ~told.wrongly

-----------------------------------------------------------------------------
(* Why: what a link was told of, its row and its end go together; and while*)
(* no two requests overlapped nobody adds a link between the looks of a    *)
(* request and its insert.                                                 *)
Links == [exists : BOOLEAN, deleted : BOOLEAN, expires : Nat, downloads : Nat]
AskSound(ask) ==
    /\ ask \in [at : {"idle", "looked", "inserts"}, now : Nat, reused : BOOLEAN]
    /\ ask.now <= now
    /\ ~met /\ (ask.at = "inserts" \/ (ask.at = "looked" /\ ~ask.reused)) => Live(ask.now) = {}

LinkKnown ==
    /\ now \in Nat /\ rows \in [Tokens -> Links] /\ met \in BOOLEAN
    /\ loads \in [Loads -> [at : {"idle", "counts"}, token : Tokens \cup {NoToken}]]
AsksAreSound ==
    /\ asks = [a \in Askers |-> asks[a]] /\ \A a \in Askers : AskSound(asks[a])
    /\ ~met => \A a, b \in Askers : asks[a].at # "idle" /\ asks[b].at # "idle" => a = b
ToldIsSound ==
    /\ told = [shown |-> told.shown, wrongly |-> told.wrongly] /\ ~told.wrongly
    /\ told.shown \subseteq Tokens \cup {NoToken} /\ (~met => NoToken \notin told.shown)
    /\ ended = [lapsed |-> ended.lapsed, revoked |-> ended.revoked] /\ Ended \subseteq told.shown
    /\ Issued \subseteq told.shown /\ \A t \in ended.revoked \cap Issued : rows[t].deleted
    /\ \A t \in told.shown \ {NoToken} : t \in Live(now) <=> t \notin Ended
    /\ ~met => \A s, t \in Live(now) : s = t
LinksInv == LinkKnown /\ AsksAreSound /\ ToldIsSound
=============================================================================
