------------------------------- MODULE Replay -------------------------------
(***************************************************************************)
(* Exporting observations to replay bundles and replaying them             *)
(* (replay/exporter.py, bundle.py, engine.py, cli.py; alerts/replay.py).   *)
(* Observations are ingested while exporters query them; an exporter       *)
(* writes its bundle file by file, may die in between or share its         *)
(* directory with another; bundles are copied about; a replay loads one,   *)
(* possibly while it is being written, and decides every event anew.       *)
(*                                                                         *)
(* Abstractions: the hash of a file is its content (and the bundle id a    *)
(* function of it); a bundle exceeds its size limits when one of its lines *)
(* does; a request without bounds has those of all times.                  *)
(***************************************************************************)
EXTENDS ShadowRules, Integers, FiniteSets

CONSTANTS
  Observation,  \* observations that may be ingested, with distinct ids
  Exporter, Directory,
  ExportRequest,  \* what exporters are asked for
  Clock,        \* values of --fixed-clock
  Source,       \* sources that exist
  MAX_EVENTS,
  MaxMishaps,   \* bound: exporters that die, files that are damaged
  None, Torn    \* no file or value; what does not parse

(* What observations, the lines of a bundle and its manifest look like.    *)
ReplayEvent == [id : Nat, source : Source, occurred : Nat, observed : Nat,
          fact : Fact, too_large : BOOLEAN]

ReplayRecord == [sequence : Nat, event : ReplayEvent]

ReplayManifest ==
  [source : Source, event_count : Nat, events_sha256 : Seq(ReplayRecord),
   first : Nat \cup {None}, last : Nat \cup {None}, truncated : BOOLEAN]

ASSUME ReplayAssumption ==
  /\ Observation \subseteq ReplayEvent
  /\ \A o, p \in Observation : o.id = p.id => o = p
  /\ \A q \in ExportRequest :
       /\ DOMAIN q = {"source", "from", "to", "limit", "dir"}
       /\ q.from \in Nat /\ q.to \in Nat /\ q.limit \in Int /\ q.dir \in Directory
  /\ MAX_EVENTS \in Nat /\ MaxMishaps \in Nat /\ Clock \subseteq Nat

\* None and Torn are none of the things they stand in for.
ASSUME NoneAndTorn ==
  /\ None \notin ExportRequest /\ None \notin Exporter
  /\ None \notin Seq(ReplayRecord \cup {Torn}) /\ Torn \notin ReplayRecord
  /\ None \notin ReplayManifest /\ Torn \notin ReplayManifest

VARIABLES
  stored,     \* observations in the database
  stage,      \* stage[x]: where exporter x is
  request,    \* request[x]
  rows,       \* rows[x]: the observations it exports, in order
  truncated,  \* truncated[x]
  seen,       \* history: what was stored when x queried
  made,       \* directories that exist
  maker,      \* history: maker[d] is the exporter that made d, or None
  events,     \* events[d]: the lines of events.jsonl, or None
  manifest,   \* manifest[d]: manifest.json, or None, or Torn
  damaged,    \* history: directories that were meddled with
  mishaps,
  replay,     \* the replay: its state, directory, clock, manifest and lines
  emitted     \* what its sink was given and decided

database == <<stored, seen>>
export   == <<stage, request, rows, truncated>>
files    == <<made, maker, events, manifest, damaged>>
player   == <<replay, emitted>>
replayVars == <<database, export, files, player, mishaps>>

NoReplay == [state |-> "idle", dir |-> None, clock |-> None, manifest |-> None, lines |-> <<>>]

ReplayInit ==
  /\ stored = {} /\ seen = [x \in Exporter |-> {}]
  /\ stage = [x \in Exporter |-> "idle"]
  /\ request = [x \in Exporter |-> None]
  /\ rows = [x \in Exporter |-> <<>>]
  /\ truncated = [x \in Exporter |-> FALSE]
  /\ made = {} /\ damaged = {}
  /\ maker = [d \in Directory |-> None]
  /\ events = [d \in Directory |-> None]
  /\ manifest = [d \in Directory |-> None]
  /\ mishaps = 0
  /\ replay = NoReplay /\ emitted = <<>>

-----------------------------------------------------------------------------
(* The canonical order: occurred_at, observed_at, id.                      *)
Before(o, p) ==
  \/ o.occurred < p.occurred
  \/ o.occurred = p.occurred /\ o.observed < p.observed
  \/ o.occurred = p.occurred /\ o.observed = p.observed /\ o.id < p.id

\* Variant: the time of observation is left out of the order.
ByIdOnly(S) ==
  [i \in 1 .. Cardinality(S) |->
     CHOOSE o \in S : i - 1 = Cardinality(
       {p \in S : p.occurred < o.occurred \/ (p.occurred = o.occurred /\ p.id < o.id)})]

Sorted(S) ==
  [i \in 1 .. Cardinality(S) |->
     CHOOSE o \in S : Cardinality({p \in S : Before(p, o)}) = i - 1]

Window(q, S) == {o \in S : o.source = q.source /\ q.from <= o.occurred /\ o.occurred <= q.to}

FirstOf(n, s) == SubSeq(s, 1, IF n < Len(s) THEN n ELSE Len(s))

(* ObservationExporter._record: no objects, so no stationary flags.        *)
Record(sequence, o) ==
  [sequence |-> sequence, event |-> [o EXCEPT !.fact = ReplayFact(@)]]

Records(s) == [i \in DOMAIN s |-> Record(i - 1, s[i])]

Manifest(q, s, more) ==
  [source |-> q.source, event_count |-> Len(s), events_sha256 |-> Records(s),
   first |-> IF s = <<>> THEN None ELSE s[1].occurred,
   last  |-> IF s = <<>> THEN None ELSE s[Len(s)].occurred,
   truncated |-> more]

-----------------------------------------------------------------------------
(* Ingest commits observations in any order, also late ones.               *)
Ingest(o) ==
  /\ o \in Observation \ stored
  /\ stored' = stored \cup {o}
  /\ UNCHANGED <<seen, export, files, player, mishaps>>

MoveTo(x, p) == stage' = [stage EXCEPT ![x] = p]

Acceptable(q) ==
  /\ q.limit \in 1 .. MAX_EVENTS
  /\ q.from <= q.to
  /\ q.dir \notin made
  /\ q.source \in Source

Ask(x) ==
  /\ stage[x] = "idle"
  /\ \E q \in ExportRequest :
       /\ request' = [request EXCEPT ![x] = q]
       /\ MoveTo(x, IF Acceptable(q) THEN "accepted" ELSE "refused")
  /\ UNCHANGED <<database, rows, truncated, files, player, mishaps>>

(* One more than the limit is read, to tell whether there is more.         *)
Query(x) ==
  /\ stage[x] = "accepted"
  /\ LET q == request[x]
         found == FirstOf(q.limit + 1, Sorted(Window(q, stored)))
     IN  /\ rows' = [rows EXCEPT ![x] = FirstOf(q.limit, found)]
         /\ truncated' = [truncated EXCEPT ![x] = Len(found) > q.limit]
  /\ seen' = [seen EXCEPT ![x] = stored]
  /\ MoveTo(x, "queried")
  /\ UNCHANGED <<stored, request, files, player, mishaps>>

\* Variant: mkdir with exist_ok=True.
AlwaysFree(d) == TRUE

\* mkdir with exist_ok=False: the check of Ask may be out of date.
Free(d) == d \notin made

MakeDirectory(x) ==
  /\ stage[x] = "queried" /\ Free(request[x].dir)
  /\ made' = made \cup {request[x].dir}
  /\ maker' = [maker EXCEPT ![request[x].dir] = x]
  /\ MoveTo(x, "events")
  /\ UNCHANGED <<database, request, rows, truncated, events, manifest, damaged, player,
                 mishaps>>

DirectoryTaken(x) ==
  /\ stage[x] = "queried" /\ ~ Free(request[x].dir)
  /\ MoveTo(x, "refused")
  /\ UNCHANGED <<database, request, rows, truncated, files, player, mishaps>>

(* write_bytes creates the file, and then fills it.                        *)
CutOff(lines) ==
  {SubSeq(lines, 1, k) : k \in 0 .. Len(lines) - 1}
    \cup {Append(SubSeq(lines, 1, k), Torn) : k \in 0 .. Len(lines) - 1}

OpenEvents(x) ==
  /\ stage[x] = "events"
  /\ \E lines \in CutOff(Records(rows[x])) \cup {<<>>} :
       events' = [events EXCEPT ![request[x].dir] = lines]
  /\ MoveTo(x, "events_open")
  /\ UNCHANGED <<database, request, rows, truncated, made, maker, manifest, damaged, player,
                 mishaps>>

CloseEvents(x) ==
  /\ stage[x] = "events_open"
  /\ events' = [events EXCEPT ![request[x].dir] = Records(rows[x])]
  /\ MoveTo(x, "manifest")
  /\ UNCHANGED <<database, request, rows, truncated, made, maker, manifest, damaged, player,
                 mishaps>>

OpenManifest(x) ==
  /\ stage[x] = "manifest"
  /\ manifest' = [manifest EXCEPT ![request[x].dir] = Torn]
  /\ MoveTo(x, "manifest_open")
  /\ UNCHANGED <<database, request, rows, truncated, made, maker, events, damaged, player,
                 mishaps>>

CloseManifest(x) ==
  /\ stage[x] = "manifest_open"
  /\ manifest' = [manifest EXCEPT ![request[x].dir] =
                    Manifest(request[x], rows[x], truncated[x])]
  /\ MoveTo(x, "exported")
  /\ UNCHANGED <<database, request, rows, truncated, made, maker, events, damaged, player,
                 mishaps>>

Working == {"events", "events_open", "manifest", "manifest_open"}

(* The process dies, or a write fails; nothing cleans up.                  *)
ExportDies(x) ==
  /\ stage[x] \in Working \cup {"accepted", "queried"}
  /\ mishaps < MaxMishaps
  /\ mishaps' = mishaps + 1
  /\ MoveTo(x, "died")
  /\ UNCHANGED <<database, request, rows, truncated, files, player>>

(* External: a file is cut short or lost, or taken over from another       *)
(* bundle, as when copying bundles is broken off.                          *)
Damage(d) ==
  /\ d \in made /\ mishaps < MaxMishaps
  /\ \A x \in Exporter : stage[x] \in Working => request[x].dir # d
  /\ mishaps' = mishaps + 1
  /\ damaged' = damaged \cup {d}
  /\ \/ /\ events[d] # None
        /\ \E lines \in CutOff(events[d]) \cup {None} :
             events' = [events EXCEPT ![d] = lines]
        /\ UNCHANGED manifest
     \/ \E e \in Directory \ {d} :
          /\ events' = [events EXCEPT ![d] = events[e]]
          /\ UNCHANGED manifest
     \/ \E m \in {None, Torn} \cup {manifest[e] : e \in Directory} :
          /\ manifest' = [manifest EXCEPT ![d] = m]
          /\ UNCHANGED events
  /\ UNCHANGED <<database, export, made, maker, player>>

-----------------------------------------------------------------------------
\* Variant: the lines are checked, but not that they are all there.
LinesOnly(m, lines) ==
  \A i \in DOMAIN lines :
    lines[i] # Torn /\ ~ lines[i].event.too_large /\ lines[i].sequence = i - 1

(* load_replay_bundle, once both files are read.                           *)
Consistent(m, lines) ==
  /\ lines = m.events_sha256
  /\ Len(lines) <= MAX_EVENTS /\ Len(lines) = m.event_count
  /\ \A i \in DOMAIN lines :
       /\ lines[i] # Torn
       /\ ~ lines[i].event.too_large
       /\ lines[i].sequence = i - 1 /\ lines[i].event.source = m.source
       /\ \A j \in DOMAIN lines : i < j => Before(lines[i].event, lines[j].event)
  /\ IF lines = <<>> THEN m.first = None /\ m.last = None
     ELSE lines[1].event.occurred = m.first /\ lines[Len(lines)].event.occurred = m.last

(* The manifest is read first, and the events after it.                    *)
ReadManifest(d) ==
  /\ replay.state = "idle"
  /\ manifest[d] # None /\ events[d] # None
  /\ manifest[d] # Torn
  /\ \E c \in Clock \cup {None} :
       replay' = [state |-> "loading", dir |-> d, clock |-> c, manifest |-> manifest[d],
                  lines |-> <<>>]
  /\ UNCHANGED <<database, export, files, emitted, mishaps>>

ReadEvents ==
  /\ replay.state = "loading"
  /\ replay' = IF events[replay.dir] # None /\ Consistent(replay.manifest, events[replay.dir])
               THEN [replay EXCEPT !.state = "playing", !.lines = events[replay.dir]]
               ELSE NoReplay
  /\ UNCHANGED <<database, export, files, emitted, mishaps>>

\* ReplayEngine.run: --fixed-clock shifts all times alike.
ReplayedAt(event) ==
  IF replay.clock = None THEN event.occurred
  ELSE replay.clock + (event.occurred - replay.lines[1].event.occurred)

(* The next event reaches ShadowDecisionDryRunSink.                        *)
Emit ==
  /\ replay.state = "playing" /\ Len(emitted) < Len(replay.lines)
  /\ LET event == replay.lines[Len(emitted) + 1].event
     IN  emitted' = Append(emitted, [event |-> event, replayed_at |-> ReplayedAt(event),
                                     outcome |-> Evaluate(event.fact).outcome])
  /\ UNCHANGED <<database, export, files, replay, mishaps>>

Report ==
  /\ replay.state = "playing" /\ Len(emitted) = Len(replay.lines)
  /\ replay' = [replay EXCEPT !.state = "reported"]
  /\ UNCHANGED <<database, export, files, emitted, mishaps>>

(* The replay is over, or stopped by the user: either way nothing is left. *)
LeaveReplay ==
  /\ replay.state \in {"loading", "playing", "reported"}
  /\ replay' = NoReplay /\ emitted' = <<>>
  /\ UNCHANGED <<database, export, files, mishaps>>

Export(x) ==
  \/ Ask(x) \/ Query(x) \/ MakeDirectory(x) \/ DirectoryTaken(x)
  \/ OpenEvents(x) \/ CloseEvents(x) \/ OpenManifest(x) \/ CloseManifest(x)
  \/ ExportDies(x)

ReplayNext ==
  \/ \E o \in Observation : Ingest(o)
  \/ \E x \in Exporter : Export(x)
  \/ \E d \in Directory : Damage(d) \/ ReadManifest(d)
  \/ ReadEvents \/ Emit \/ Report \/ LeaveReplay

ReplaySpec == ReplayInit /\ [][ReplayNext]_replayVars

-----------------------------------------------------------------------------
(* The types of the variables.                                             *)
ReplayTypeOK ==
  /\ stored \subseteq Observation /\ seen \in [Exporter -> SUBSET Observation]
  /\ stage \in [Exporter -> Working \cup {"idle", "accepted", "refused", "queried", "exported",
                                          "died"}]
  /\ request \in [Exporter -> ExportRequest \cup {None}]
  /\ rows \in [Exporter -> Seq(Observation)]
  /\ truncated \in [Exporter -> BOOLEAN]
  /\ made \subseteq Directory /\ damaged \subseteq made
  /\ maker \in [Directory -> Exporter \cup {None}]
  /\ events \in [Directory -> Seq(ReplayRecord \cup {Torn}) \cup {None}]
  /\ manifest \in [Directory -> ReplayManifest \cup {None, Torn}]
  /\ mishaps \in 0 .. MaxMishaps
  /\ replay \in [state : {"idle", "loading", "playing", "reported"}, dir : Directory \cup {None},
                 clock : Clock \cup {None}, manifest : ReplayManifest \cup {None},
                 lines : Seq(ReplayRecord)]
  /\ emitted \in Seq([event : ReplayEvent, replayed_at : Int,
                      outcome : {"escalate", "send", "suppress", "no_action"}])

(* The emitted events are those of export x: the first of its window by    *)
(* the canonical order, as they were stored when it queried.               *)
IsReplayOf(x) ==
  LET W == Window(request[x], seen[x])
      exported == {o \in W : \E i \in DOMAIN emitted : emitted[i].event.id = o.id}
  IN  /\ Len(emitted) = Cardinality(exported)
      /\ Len(emitted) = Cardinality(W) \/ Len(emitted) = request[x].limit
      /\ replay.manifest.truncated = (W # exported)
      /\ \A o \in exported, p \in W \ exported : Before(o, p)
      /\ \A i, j \in DOMAIN emitted : i < j => Before(emitted[i].event, emitted[j].event)

(* A replay that reports success emitted exactly what one export found in  *)
(* its window, however bundles were written, interrupted, shared, copied   *)
(* or damaged meanwhile, and kept the distances in time.                   *)
ReplayedIsExported ==
  replay.state = "reported" =>
    /\ \E x \in Exporter :
         /\ x = maker[replay.dir] \/ replay.dir \in damaged
         /\ request[x] # None /\ IsReplayOf(x)
    /\ \A i, j \in DOMAIN emitted :
         emitted[j].replayed_at - emitted[i].replayed_at
           = emitted[j].event.occurred - emitted[i].event.occurred

Loadable(d) ==
  /\ manifest[d] # None /\ events[d] # None /\ manifest[d] # Torn
  /\ Consistent(manifest[d], events[d])

(* A directory cannot be loaded only while its export is at work, because  *)
(* that died, because it was damaged, or because a line is too long, which *)
(* the exporter does not check.                                            *)
UnreadableIsExplained ==
  \A d \in made : Loadable(d) \/ d \in damaged
    \/ LET x == maker[d]
       IN  stage[x] \in Working \cup {"died"}
             \/ \E i \in DOMAIN rows[x] : rows[x][i].too_large

(* Replay decides as the live handler did, which it can tell: a person is  *)
(* notified of, and only what the rule on stationary objects suppressed is *)
(* decided otherwise.                                                      *)
ReplayDecidesAsLive ==
  /\ RulesAreSound
  /\ \A i \in DOMAIN emitted :
       \E o \in stored :
         /\ o.id = emitted[i].event.id
         /\ Evaluate(o.fact).outcome \in {emitted[i].outcome, "suppress"}
         /\ "person" \in o.fact.labels => Evaluate(o.fact).outcome = emitted[i].outcome

(* Nothing but the export that made it writes to a directory, and that     *)
(* only until it reports the export: a retry never overwrites a bundle,    *)
(* nor repairs what another export left behind.                            *)
BundlesAreImmutable ==
  [][\A d \in made :
       /\ maker'[d] = maker[d]
       /\ <<events[d], manifest[d]>>' # <<events[d], manifest[d]>> =>
            \/ mishaps' # mishaps
            \/ stage[maker[d]] \in Working /\ request[maker[d]].dir = d]_replayVars
=============================================================================
