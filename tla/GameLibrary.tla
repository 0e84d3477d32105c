---------------------------- MODULE GameLibrary ----------------------------
(***************************************************************************)
(* altc's game library. The table in SQLite owns the games; Wolf keeps its *)
(* list of apps in memory, and a push makes that list the table's: it      *)
(* deletes what Wolf lists, one call at a time, and adds every game.       *)
(*                                                                         *)
(* Admins' requests and the syncs that the event bridge spawns whenever it *)
(* connects are tasks of one runtime: each stops at every await, nothing   *)
(* keeps two of them apart, and a request whose client hangs up is dropped *)
(* where it stands. A step is what a task does between two awaits.         *)
(***************************************************************************)
EXTENDS Naturals, Sequences, FiniteSets, SequencesExt

CONSTANTS Game,         \* app ids
          Title,
          None,
          Config,       \* the apps of config.toml, Wolf's when it starts
          Request,      \* requests of admins at a time
          Syncs,        \* syncs at a time
          Past,         \* what an earlier run of altc may have left
          MaxRequests,  \* requests in all
          MaxStops      \* how often Wolf or altc stops, a stream or a client goes

\* How much of the engine config a row has: what 0001 stored, pipelines
\* without the producer's caps, all of it.
Engine == {"none", "nocaps", "full"}
Row == [title : Title, engine : Engine]
App == [game : Game, title : Title, engine : Engine]

ASSUME LibraryAssumption ==
  /\ IsFiniteSet(Game)
  /\ None \notin Title \cup Row
  /\ Config \in Seq(App)
  /\ Request \cap Syncs = {}
  /\ Past \subseteq [table : [Game -> Row \cup {None}], template : Engine,
                    shares : SUBSET Game]
  /\ {MaxRequests, MaxStops} \subseteq Nat

VARIABLES
  table,     \* games: the row of each game
  template,  \* engine_defaults
  shares,    \* app_shares: the games that are restricted to some users
  wolf,      \* Wolf runs
  apps,      \* the apps it lists
  altc,      \* altc runs
  stream,    \* the bridge has an event stream
  task,      \* per request and sync, where it stands and what it holds
  push,      \* history: what came between a task's push
  mirror,    \* history: what the last push left, until the table changes
  pushed,    \* history: a push has run whole since Wolf started
  count      \* requests and stops so far

db == <<table, template, shares>>
server == <<wolf, apps>>
history == <<push, mirror, pushed>>
vars == <<db, server, altc, stream, task, history, count>>

Task == Request \cup Syncs

\* at: the await a task is at. After a request's push comes `then`.
Idle == [at |-> "idle", then |-> "idle", game |-> None, title |-> None,
         engine |-> "none", todo |-> <<>>, del |-> <<>>]
Apart == [alone |-> TRUE, current |-> TRUE, whole |-> TRUE]

InPush(t) == task[t].at \in {"apps", "delete", "add"}
Owned == {g \in Game : table[g] # None}
AppOf(g) == [game |-> g, title |-> table[g].title, engine |-> table[g].engine]

Await ==
  [at : {"idle", "insert", "rename", "reread", "find", "save", "share", "count",
         "fetch", "import", "stale", "ask", "heal", "read", "apps", "delete", "add"},
   then : {"idle", "find", "reread"},
   game : Game \cup {None}, title : Title \cup {None}, engine : Engine,
   todo : Seq(App), del : Seq(Game)]

TypeOK ==
  /\ table \in [Game -> Row \cup {None}]
  /\ template \in Engine
  /\ shares \in SUBSET Game
  /\ wolf \in BOOLEAN /\ apps \in Seq(App) /\ altc \in BOOLEAN
  /\ stream \in BOOLEAN /\ (stream => wolf /\ altc)
  /\ task \in [Task -> Await]
  /\ push \in [Task -> [alone : BOOLEAN, current : BOOLEAN, whole : BOOLEAN]]
  /\ mirror \in {"no", "listed", "exact"}
  /\ pushed \in BOOLEAN
  /\ count \in [requests : 0..MaxRequests, stops : 0..MaxStops]

\* The first start, or a later one. Nothing is connected.
Fresh == [table |-> [g \in Game |-> None], template |-> "none", shares |-> {}]

Init ==
  /\ \E p \in Past \cup {Fresh} :
       table = p.table /\ template = p.template /\ shares = p.shares
  /\ wolf = TRUE /\ apps = Config
  /\ altc = TRUE /\ stream = FALSE
  /\ task = [t \in Task |-> Idle]
  /\ push = [t \in Task |-> Apart]
  /\ mirror = "no" /\ pushed = FALSE
  /\ count = [requests |-> 0, stops |-> 0]

-----------------------------------------------------------------------------
(* What the steps are made of. *)

Goto(t, at) == task' = [task EXCEPT ![t].at = at]
End(t) == task' = [task EXCEPT ![t] = Idle]

\* push() has returned: create() goes on to refresh_metadata().
Finish(t) ==
  task' = [task EXCEPT ![t] =
            [Idle EXCEPT !.at = task[t].then,
                         !.game = IF task[t].then = "find" THEN task[t].game ELSE None]]

\* A push runs into something: what the others in flight leave is unknown.
Disturb(t) ==
  push' = [u \in Task |-> IF u # t /\ InPush(u)
                          THEN [push[u] EXCEPT !.current = FALSE] ELSE Apart]

\* The table changes: what was read of it is old.
Outdate(t) ==
  /\ Disturb(t)
  /\ mirror' = "no"
  /\ UNCHANGED pushed

Upsert(t, g, row) ==
  /\ table' = [table EXCEPT ![g] = row]
  /\ Outdate(t)

\* A task ends where it is: a call failed, or its client hung up.
Abandon(t) ==
  /\ End(t)
  /\ IF InPush(t)
     THEN Disturb(t) /\ mirror' = "no" /\ UNCHANGED pushed
     ELSE UNCHANGED history

-----------------------------------------------------------------------------
(* push(): read the table, list Wolf's apps, delete each, add each. *)

\* Nothing to push, a row that Wolf could not launch, or the payloads.
PushRead(t) ==
  /\ task[t].at = "read"
  /\ \/ /\ Owned = {}
        /\ Finish(t)
        /\ UNCHANGED history
     \/ /\ \E g \in Owned : table[g].engine = "none"
        /\ End(t)
        /\ UNCHANGED history
     \/ /\ Owned # {} /\ \A g \in Owned : table[g].engine # "none"
        /\ task' = [task EXCEPT ![t].at = "apps",
                                ![t].todo = SetToSeq({AppOf(g) : g \in Owned})]
        /\ LET others == {u \in Task : InPush(u)}
           IN  push' = [u \in Task |->
                 IF u = t
                 THEN [alone |-> others = {},
                       current |-> \A o \in others : push[o].current,
                       whole |-> TRUE]
                 ELSE IF u \in others THEN [push[u] EXCEPT !.alone = FALSE]
                 ELSE push[u]]
        /\ UNCHANGED <<mirror, pushed>>
  /\ UNCHANGED <<db, server, altc, stream, count>>

\* Variant of ListedIds for mutation: only games that have gone are deleted.
ListedIdsGone ==
  SelectSeq([i \in DOMAIN apps |-> apps[i].game], LAMBDA g : table[g] = None)

ListedIds == [i \in DOMAIN apps |-> apps[i].game]

PushApps(t) ==
  /\ task[t].at = "apps" /\ wolf
  /\ task' = [task EXCEPT ![t].at = IF ListedIds = <<>> THEN "add" ELSE "delete",
                          ![t].del = ListedIds]
  /\ UNCHANGED <<db, server, altc, stream, history, count>>

\* Every app of a list but those of a game, in the order they were in.
Without(list, g) ==
  LET kept[n \in 0..Len(list)] ==
        IF n = 0 THEN <<>>
        ELSE IF list[n].game = g THEN kept[n - 1]
        ELSE Append(kept[n - 1], list[n])
  IN  kept[Len(list)]

\* RemoveApp filters every copy of the id out.
RemoveApp(g) == apps' = Without(apps, g)

PushDelete(t) ==
  /\ task[t].at = "delete" /\ wolf
  /\ RemoveApp(Head(task[t].del))
  /\ task' = [task EXCEPT ![t].at = IF Len(task[t].del) = 1 THEN "add" ELSE @,
                          ![t].del = Tail(@)]
  /\ UNCHANGED <<db, wolf, altc, stream, history, count>>

\* AddApp appends, whether or not the id is listed; an app without caps gets
\* those of the first one.
AddApp(a) ==
  apps' = Append(apps, IF a.engine = "nocaps" /\ apps # <<>>
                       THEN [a EXCEPT !.engine = apps[1].engine] ELSE a)

PushAdd(t) ==
  /\ task[t].at = "add" /\ wolf
  /\ AddApp(Head(task[t].todo))
  /\ IF Len(task[t].todo) > 1
     THEN /\ task' = [task EXCEPT ![t].todo = Tail(@)]
          /\ UNCHANGED history
     ELSE /\ Finish(t)
          /\ mirror' = IF ~push[t].current THEN "no"
                       ELSE IF push[t].alone THEN "exact" ELSE "listed"
          /\ pushed' = (pushed \/ push[t].whole)
          /\ push' = [push EXCEPT ![t] = Apart]
  /\ UNCHANGED <<db, wolf, altc, stream, count>>

\* Every call has its own connection: it fails only while Wolf is down.
PushFails(t) ==
  /\ InPush(t) /\ ~wolf
  /\ Abandon(t)
  /\ UNCHANGED <<db, server, altc, stream, count>>

Push(t) ==
  PushRead(t) \/ PushApps(t) \/ PushDelete(t) \/ PushAdd(t) \/ PushFails(t)

-----------------------------------------------------------------------------
(* Admins' requests. One that is refused changes nothing and is left out. *)

NewRequest(r) ==
  /\ altc
  /\ task[r].at = "idle" /\ count.requests < MaxRequests
  /\ count' = [count EXCEPT !.requests = @ + 1]

\* create(): no game has the title, and the template is one that launches.
Create(r, title) ==
  /\ NewRequest(r)
  /\ \A g \in Owned : table[g].title # title
  /\ template = "full"
  /\ task' = [task EXCEPT ![r] = [Idle EXCEPT !.at = "insert",
                                              !.title = title, !.engine = template]]
  /\ UNCHANGED <<db, server, altc, stream, history>>

\* allocate_id() draws until no row has the id.
Insert(r, g) ==
  /\ task[r].at = "insert" /\ table[g] = None
  /\ task' = [task EXCEPT ![r] = [Idle EXCEPT !.at = "read", !.then = "find", !.game = g]]
  /\ Upsert(r, g, [title |-> task[r].title, engine |-> task[r].engine])
  /\ UNCHANGED <<template, shares, server, altc, stream, count>>

\* update(): what the edit leaves out is taken from the row as it is now.
Update(r, g, title, configure) ==
  /\ NewRequest(r)
  /\ table[g] # None
  /\ task' = [task EXCEPT ![r] =
                [Idle EXCEPT !.at = "rename", !.game = g,
                             !.title = IF title = None THEN table[g].title ELSE title,
                             !.then = IF configure THEN "reread" ELSE "idle"]]
  /\ UNCHANGED <<db, server, altc, stream, history>>

\* The other fields are edited in a copy of the row, which is saved whole.
Rename(r) ==
  /\ task[r].at = "rename"
  /\ LET g == task[r].game
     IN  IF table[g] = None
         THEN End(r) /\ UNCHANGED <<table, history>>
         ELSE /\ task' = [task EXCEPT ![r] =
                   IF task[r].then = "reread"
                   THEN [Idle EXCEPT !.at = "reread", !.game = g]
                   ELSE [Idle EXCEPT !.at = "read"]]
              /\ Upsert(r, g, [table[g] EXCEPT !.title = task[r].title])
  /\ UNCHANGED <<template, shares, server, altc, stream, count>>

\* Reads a row that it will save: for update() as it is, for refresh_metadata()
\* with the store's title, which may be any. The row may have gone; update()
\* refuses a pad type it does not know only now, and the install folder may say
\* nothing to refresh_metadata().
Reread(r) ==
  /\ task[r].at \in {"reread", "find"}
  /\ LET g == task[r].game
     IN  \/ End(r)
        \/ /\ table[g] # None
           /\ \E title \in IF task[r].at = "find" THEN Title ELSE {table[g].title} :
                task' = [task EXCEPT ![r].at = "save", ![r].title = title,
                                     ![r].engine = table[g].engine]
  /\ UNCHANGED <<db, server, altc, stream, history, count>>

Refresh(r, g) ==
  /\ NewRequest(r)
  /\ table[g] # None
  /\ task' = [task EXCEPT ![r] = [Idle EXCEPT !.at = "find", !.game = g]]
  /\ UNCHANGED <<db, server, altc, stream, history>>

\* upsert() writes every column, and inserts the row if it has gone.
Save(r) ==
  /\ task[r].at = "save"
  /\ task' = [task EXCEPT ![r] = [Idle EXCEPT !.at = "read"]]
  /\ Upsert(r, task[r].game, [title |-> task[r].title, engine |-> task[r].engine])
  /\ UNCHANGED <<template, shares, server, altc, stream, count>>

\* Variant of ForgetShares for mutation: only the row goes.
ForgetNoShares(g) == UNCHANGED shares /\ g \in Game

ForgetShares(g) == shares' = shares \ {g}

\* remove(): the row and the game's shares, in one transaction.
Delete(r, g) ==
  /\ NewRequest(r)
  /\ table[g] # None
  /\ task' = [task EXCEPT ![r] = [Idle EXCEPT !.at = "read"]]
  /\ Upsert(r, g, None)
  /\ ForgetShares(g)
  /\ UNCHANGED <<template, server, altc, stream>>

\* set_shares(): the game is there, then its shares are replaced.
CheckShares(r, g) ==
  /\ NewRequest(r)
  /\ table[g] # None
  /\ task' = [task EXCEPT ![r] = [Idle EXCEPT !.at = "share", !.game = g]]
  /\ UNCHANGED <<db, server, altc, stream, history>>

SetShares(r) ==
  /\ task[r].at = "share"
  /\ End(r)
  /\ \/ shares' = shares \cup {task[r].game}
     \/ shares' = shares \ {task[r].game}
  /\ UNCHANGED <<table, template, server, altc, stream, history, count>>

NewTask(r) ==
  \/ \E title \in Title : Create(r, title)
  \/ \E g \in Game :
       \/ \E title \in Title \cup {None}, configure \in BOOLEAN :
            Update(r, g, title, configure)
       \/ Refresh(r, g) \/ Delete(r, g) \/ CheckShares(r, g)

RequestStep(r) ==
  \/ \E g \in Game : Insert(r, g)
  \/ Rename(r) \/ Reread(r) \/ Save(r) \/ SetShares(r)
  \/ Push(r)

-----------------------------------------------------------------------------
(* The bridge and what it spawns: sync_library(). *)

\* Variant of SpawnSync for mutation: a library that has been imported is not sent again.
SpawnFirstSync(s) == Goto(s, IF Owned = {} THEN "count" ELSE "idle")

SpawnSync(s) == Goto(s, "count")

\* The event stream opens, the first time or again.
Connect(s) ==
  /\ altc /\ wolf /\ ~stream
  /\ task[s].at = "idle"
  /\ stream' = TRUE
  /\ SpawnSync(s)
  /\ UNCHANGED <<db, server, altc, history, count>>

\* import_if_empty() takes what Wolf lists into an empty table, app by app. If
\* it cannot ask Wolf, the sync is over.
SyncCount(s) ==
  /\ task[s].at = "count"
  /\ Goto(s, IF Owned = {} THEN "fetch" ELSE "stale")
  /\ UNCHANGED <<db, server, altc, stream, history, count>>

ImportFetch(s) ==
  /\ task[s].at = "fetch"
  /\ IF wolf
     THEN task' = [task EXCEPT ![s].at = IF apps = <<>> THEN "stale" ELSE "import",
                               ![s].todo = apps]
     ELSE End(s)
  /\ UNCHANGED <<db, server, altc, stream, history, count>>

\* The first one also seeds the template.
ImportApp(s) ==
  /\ task[s].at = "import"
  /\ LET a == Head(task[s].todo)
     IN  /\ template' = IF template = "none" THEN a.engine ELSE template
         /\ Upsert(s, a.game, [title |-> a.title, engine |-> a.engine])
  /\ task' = [task EXCEPT ![s].at = IF Len(task[s].todo) = 1 THEN "stale" ELSE @,
                          ![s].todo = Tail(@)]
  /\ UNCHANGED <<shares, server, altc, stream, count>>

\* backfill_engine_config() lists the rows, and asks Wolf if one is stale or
\* the template is.
BackfillList(s) ==
  /\ task[s].at = "stale"
  /\ LET stale == {g \in Owned : table[g].engine # "full"}
     IN  task' = [task EXCEPT
           ![s].at = IF stale = {} /\ template = "full" THEN "read" ELSE "ask",
           ![s].todo = SetToSeq({AppOf(g) : g \in stale})]
  /\ UNCHANGED <<db, server, altc, stream, history, count>>

\* The engine config of Wolf's copy, the last of them, in the row as it was
\* listed. If Wolf is down, none of them is known, and the push is tried all the same.
WolfEngine(g) == apps[Max({i \in DOMAIN apps : apps[i].game = g})].engine

BackfillAsk(s) ==
  /\ task[s].at = "ask"
  /\ LET known == {a \in ToSet(task[s].todo) : \E i \in DOMAIN apps : apps[i].game = a.game}
         healed == {[a EXCEPT !.engine = WolfEngine(a.game)] : a \in known}
     IN  /\ task' = [task EXCEPT
               ![s].at = IF healed # {} THEN "heal" ELSE "read",
               ![s].todo = SetToSeq(healed)]
         /\ template' = IF \E i \in DOMAIN apps : apps[i].engine = "full"
                        THEN "full" ELSE template
  /\ UNCHANGED <<table, shares, server, altc, stream, history, count>>

BackfillRow(s) ==
  /\ task[s].at = "heal"
  /\ LET a == Head(task[s].todo)
     IN  Upsert(s, a.game, [title |-> a.title, engine |-> a.engine])
  /\ task' = [task EXCEPT ![s].at = IF Len(task[s].todo) = 1 THEN "read" ELSE @,
                          ![s].todo = Tail(@)]
  /\ UNCHANGED <<template, shares, server, altc, stream, count>>

SyncStep(s) ==
  \/ SyncCount(s) \/ ImportFetch(s) \/ ImportApp(s)
  \/ BackfillList(s) \/ BackfillAsk(s) \/ BackfillRow(s)
  \/ Push(s)

-----------------------------------------------------------------------------
(* What stops, and starts again. *)

Stop == count.stops < MaxStops /\ count' = [count EXCEPT !.stops = @ + 1]

\* Variant of StreamLost for mutation: the bridge does not see that the stream has ended.
StreamNotLost == UNCHANGED stream

StreamLost == stream' = FALSE

\* A push that is under way goes on with the Wolf that comes up.
WolfStops ==
  /\ wolf /\ Stop
  /\ wolf' = FALSE /\ apps' = <<>>
  /\ StreamLost
  /\ push' = [t \in Task |->
                IF InPush(t) THEN [push[t] EXCEPT !.current = FALSE, !.whole = FALSE]
                ELSE push[t]]
  /\ mirror' = "no" /\ pushed' = FALSE
  /\ UNCHANGED <<db, altc, task>>

\* What was added over the API was never saved.
WolfStarts ==
  /\ ~wolf
  /\ wolf' = TRUE /\ apps' = Config
  /\ UNCHANGED <<db, altc, stream, task, history, count>>

StreamBreaks ==
  /\ stream /\ Stop
  /\ StreamLost
  /\ UNCHANGED <<db, server, altc, task, history>>

HangUp(r) ==
  /\ task[r].at # "idle" /\ Stop
  /\ Abandon(r)
  /\ UNCHANGED <<db, server, altc, stream>>

AltcStops ==
  /\ altc /\ Stop
  /\ altc' = FALSE /\ StreamLost
  /\ task' = [t \in Task |-> Idle]
  /\ mirror' = IF \E t \in Task : InPush(t) THEN "no" ELSE mirror
  /\ push' = [t \in Task |-> Apart]
  /\ UNCHANGED <<db, server, pushed>>

AltcStarts ==
  /\ ~altc
  /\ altc' = TRUE
  /\ UNCHANGED <<db, server, stream, task, history, count>>

Next ==
  \/ \E r \in Request : NewTask(r) \/ RequestStep(r) \/ HangUp(r)
  \/ \E s \in Syncs : Connect(s) \/ SyncStep(s)
  \/ WolfStops \/ WolfStarts \/ StreamBreaks \/ AltcStops \/ AltcStarts

Spec == Init /\ [][Next]_vars

\* The bridge tries to connect forever, and every call that a sync makes, to
\* SQLite or to Wolf's socket, returns.
Fairness ==
  /\ WF_vars(\E s \in Syncs : Connect(s))
  /\ \A s \in Syncs : WF_vars(SyncStep(s))

FairSpec == Spec /\ Fairness

-----------------------------------------------------------------------------
(* Properties. *)

\* A push makes Wolf's list the table's: no game is lost, none that was
\* deleted or renamed stays, and Wolf lists no game twice (library.rs push()).
\* Pushes of the same table may overlap and still lose nothing, but then a
\* game may be listed twice; one that a change of the table, a stop of Wolf or
\* a failed push ran into promises nothing.
Same(a, g) == a.game = g /\ a.title = table[g].title

MirrorsTable ==
  (mirror # "no" /\ \A t \in Task : ~InPush(t)) =>
    /\ \A g \in Owned : \E i \in DOMAIN apps : Same(apps[i], g)
    /\ \A i \in DOMAIN apps : apps[i].game \in Owned /\ Same(apps[i], apps[i].game)
    /\ mirror = "exact" => Len(apps) = Cardinality(Owned)

\* A game that is restricted to some users is in the table: the shares of a
\* deleted game would restrict the next one that is given its id (db/games.rs
\* delete()). Of one admin at a time: set_shares() looks for the game before.
SharesHaveGame == \A g \in shares : table[g] # None

\* Whatever stops in between, a Wolf that stays up is given the library again:
\* its list is in memory, so every connection of the bridge pushes (events.rs
\* spawn_bridge()). Unless there is nothing to push, or a game that would not
\* launch holds the push back.
Pushable == Owned # {} /\ \A g \in Owned : table[g].engine # "none"
LibraryReturns == (wolf /\ altc) ~> (pushed \/ ~wolf \/ ~altc \/ ~Pushable)
=============================================================================
