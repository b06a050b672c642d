---------------------------- MODULE Persistence ----------------------------
(***************************************************************************)
(* Headless runs on disk, their crashes, their resumption and their replay: *)
(*   "M1": src/python/town_core/simulation/run.py, simulation/transactions.py, *)
(*         replay/runner.py, events/ledger.py                               *)
(*   "M3": src/python/town_core/society/run.py, society/checkpoint.py,      *)
(*         society/transactions.py, society/replay.py                       *)
(*                                                                         *)
(* The authority is reduced to what persistence tells apart: actions that   *)
(* come and go (every record map with an upsert and a remove list), events  *)
(* (append-only lists) and knowledge (a dict whose order the invariants     *)
(* read).  The engine is deterministic: plot says what each minute does.    *)
(*                                                                         *)
(* A hash stands for what was hashed: two hashes are equal exactly when     *)
(* the hashed values are.  canonical_json sorts the keys of every dict, so  *)
(* that it forgets the order of the knowledge records.                      *)
(***************************************************************************)
EXTENDS Integers, Sequences, FiniteSets, SequencesExt

CONSTANTS
  Agent,       \* agents, as numbers: their ids sort like them
  Plots,       \* what a minute may do: sequences of steps
  Interval,    \* CHECKPOINT_INTERVAL_MINUTES
  EndMinute,   \* days * 1440
  Chunks,      \* the chunk_minutes tried
  MaxRuns      \* bound on the number of run directories

(* The steps of a minute.                                                  *)
Steps == [what : {"event", "tell"}, who : SUBSET Agent] \cup [what : {"begin", "end"}]

ASSUME PersistenceConstants ==
  /\ Agent \subseteq Nat /\ IsFiniteSet(Agent)
  /\ Plots \subseteq Seq(Steps)
  /\ Interval \in Nat \ {0} /\ EndMinute \in Nat \ {0}
  /\ Chunks \subseteq Nat \ {0} /\ MaxRuns \in Nat

None == [none |-> TRUE]
Kinds == {"decision", "action", "event", "dialogue", "transaction"}
Run == 1 .. MaxRuns

VARIABLES
  edition,  \* "M1" or "M3": which of the two run writers
  plot,     \* [1 .. EndMinute -> Plots]: the deterministic engine
  proc,     \* the process of a run, or None
  disk,     \* the run directories
  report    \* how the last replay command ended, or None

vars == <<edition, plot, proc, disk, report>>

(* M1 has a single enabled agent: nobody tells anybody anything.           *)
Social == {p \in Plots : \E i \in DOMAIN p : p[i].what = "tell"}

-----------------------------------------------------------------------------
(* The authority of one process.                                           *)

Fresh == [minute |-> 0, version |-> 0, known |-> [a \in Agent |-> <<>>],
          knowledge |-> <<>>, actions |-> {}, created |-> 0, lines |-> 0,
          events |-> <<>>, count |-> 0, log |-> <<>>, chain |-> <<>>]

(* sorted(): the order is given by what comes before each element.         *)
Sorted(before) ==
  [i \in 1 .. Cardinality(DOMAIN before) |->
     CHOOSE x \in DOMAIN before : Cardinality(before[x]) = i - 1]
ByNumber(S) == [x \in S |-> {y \in S : y < x}]
ByKey(S) == [p \in S |-> {q \in S : q[1] < p[1] \/ (q[1] = p[1] /\ q[2] < p[2])}]

(* _add_knowledge: a first acquisition appends to both ledgers.            *)
Learn(w, a, e) ==
  IF <<a, e>> \in Range(w.knowledge) THEN w
  ELSE [w EXCEPT !.knowledge = Append(@, <<a, e>>), !.known[a] = Append(@, e)]

(* _stage_event: participants and witnesses learn of it in sorted order.   *)
Witnessed(w, who) ==
  LET e == Len(w.events) + 1
  IN  FoldLeft(LAMBDA v, a : Learn(v, a, e),
               [w EXCEPT !.events = Append(@, w.minute)], Sorted(ByNumber(who)))

(* share_event tells of the first event that only others know.             *)
Untold(w, a) ==
  {e \in 1 .. Len(w.events) :
     /\ <<a, e>> \notin Range(w.knowledge)
     /\ \E b \in Agent \ {a} : <<b, e>> \in Range(w.knowledge)}
Told(w, a) ==
  IF Untold(w, a) = {} THEN w
  ELSE [Learn(w, a, CHOOSE e \in Untold(w, a) : \A f \in Untold(w, a) : e <= f)
          EXCEPT !.lines = @ + 1]

Perform(w, step) ==
  CASE step.what = "event" -> Witnessed(w, step.who)
    [] step.what = "tell" -> FoldLeft(Told, w, Sorted(ByNumber(step.who)))
    [] step.what = "begin" -> [w EXCEPT !.created = @ + 1, !.actions = @ \cup {w.created + 1}]
    [] step.what = "end" -> [w EXCEPT !.actions = @ \ {id \in @ : \A k \in @ : id <= k}]

Minute(w) == FoldLeft(Perform, [w EXCEPT !.minute = @ + 1], plot[w.minute + 1])

(* Canonical JSON: the records sorted by "agent|event".                    *)
Canonical(cp) == [cp EXCEPT !.knowledge = Sorted(ByKey(Range(@)))]

(* The knowledge part of assert_society_invariants: one cursor per agent    *)
(* walks the records in the order of the dict.                             *)
Own(records, a) ==
  FoldLeft(LAMBDA own, p : IF p[1] = a THEN Append(own, p[2]) ELSE own, <<>>, records)
Accepted(cp) == \A a \in Agent : cp.known[a] = Own(cp.knowledge, a)

(* What M1 persists: WorldState alone.                                     *)
Public(w) == [minute |-> w.minute, version |-> w.version, known |-> w.known,
              actions |-> w.actions, cursor |-> Len(w.events)]

-----------------------------------------------------------------------------
(* Transactions.                                                           *)

Since(new, old) == SubSeq(new, Len(old) + 1, Len(new))

NothingRemoved(old, new) == {}
Removed(old, new) == old \ new

(* build_state_patch, build_society_patch: changed entries, removed keys,   *)
(* appended suffixes.                                                      *)
Patch(old, new) ==
  [minute |-> new.minute, version |-> old.version + 1, cursor |-> Len(new.events),
   agents |-> [a \in {b \in Agent : new.known[b] # old.known[b]} |-> new.known[a]],
   upsert |-> new.actions \ old.actions, remove |-> Removed(old.actions, new.actions),
   events |-> Since(new.events, old.events),
   knowledge |-> Sorted(ByKey(Range(new.knowledge) \ Range(old.knowledge))),
   created |-> new.created, lines |-> new.lines]

Body(old, new) ==
  [id |-> old.version + 1, expected |-> old.version, committed |-> old.version + 1,
   patch |-> Patch(old, new)]

(* build_transaction_record: M3 chains the bodies, M1 the state hashes.     *)
Transaction(old, new) ==
  IF edition = "M3"
    THEN [body |-> Body(old, new), previous |-> old.chain,
          next |-> Append(old.chain, Body(old, new))]
    ELSE [body |-> Body(old, new), previous |-> Public(old),
          next |-> Public([new EXCEPT !.version = old.version + 1])]

(* The records of one commit, in the order of SocietyEngine._commit.       *)
Numbered(kind, from, to) == [i \in 1 .. to - from |-> [kind |-> kind, payload |-> from + i]]
Emitted(old, new) ==
  Numbered("decision", old.created, new.created)
    \o Numbered("action", old.created, new.created)
    \o Numbered("event", Len(old.events), Len(new.events))
    \o Numbered("dialogue", old.lines, new.lines)
    \o <<[kind |-> "transaction", payload |-> Transaction(old, new)]>>

(* The envelopes of the authority log carry their sequence number.         *)
Envelopes(count, records) ==
  [i \in 1 .. Len(records) |->
     [sequence |-> count + i, kind |-> records[i].kind, payload |-> records[i].payload]]

Committed(old) ==
  LET new == Minute(old)
      envelopes == Envelopes(old.count, Emitted(old, new))
  IN  [new EXCEPT !.version = @ + 1, !.chain = Append(@, Body(old, new)),
                  !.count = @ + Len(envelopes), !.log = @ \o envelopes]

(* apply_transaction_record: refuses a record that does not follow.        *)
Patched(w, patch) ==
  [w EXCEPT !.minute = patch.minute, !.version = patch.version,
            !.known = [a \in Agent |-> IF a \in DOMAIN patch.agents THEN patch.agents[a] ELSE @[a]],
            !.actions = (@ \cup patch.upsert) \ patch.remove,
            !.events = @ \o patch.events,
            !.knowledge = @ \o patch.knowledge,
            !.created = patch.created, !.lines = patch.lines]

ApplySociety(w, record) ==
  LET next == [Patched(w, record.body.patch) EXCEPT !.chain = record.next]
  IN  IF /\ record.body.expected = w.version
         /\ record.previous = w.chain /\ record.next = Append(w.chain, record.body)
        THEN next ELSE None

(* The same of M1, which compares the states themselves, by their hashes.  *)
ApplyTown(w, record) ==
  LET next == Patched(w, record.body.patch)
  IN  IF /\ record.body.expected = w.version
         /\ record.previous = Public(w) /\ record.next = Public(next)
        THEN next ELSE None

-----------------------------------------------------------------------------
(* Run directories and the processes that write them.                      *)

Directory(status, first) ==
  [status |-> status, first |-> first, initial |-> None,
   checkpoints |-> [m \in {} |-> None], log |-> <<>>,
   files |-> [k \in Kinds |-> <<>>], final |-> None, summary |-> None]

(* The checkpoints that exist as files of a directory.                     *)
Stored(d) ==
  {d.checkpoints[m] : m \in DOMAIN d.checkpoints} \cup ({d.initial, d.final} \ {None})

At(phase) == proc # None /\ proc.at = phase
Dir == disk[proc.run]
Goto(phase) == proc' = [proc EXCEPT !.at = phase]
Rest == UNCHANGED <<edition, plot, report>>

Init ==
  /\ edition \in {"M1", "M3"}
  /\ plot \in [1 .. EndMinute -> IF edition = "M3" THEN Plots ELSE Plots \ Social]
  /\ proc = None
  /\ disk = [r \in Run |-> None]
  /\ report = None

Open(cp, chunk) ==
  \E r \in Run :
    /\ proc = None /\ disk[r] = None /\ \A s \in Run : s < r => disk[s] # None
    /\ disk' = [disk EXCEPT ![r] = Directory("IN_PROGRESS", cp.count)]
    /\ proc' = [run |-> r, at |-> "initial", chunk |-> chunk, cp |-> cp, pending |-> <<>>]
    /\ Rest

StartFresh == \E chunk \in Chunks : Open(Fresh, chunk)

LoadWithoutCursor(cp) == [cp EXCEPT !.count = 0, !.log = <<>>]

(* load_checkpoint of any checkpoint of any run, whatever became of it.    *)
Load(cp) == cp
Resume ==
  /\ edition = "M3"
  /\ \E r \in Run, chunk \in Chunks :
       /\ disk[r] # None
       /\ \E cp \in Stored(disk[r]) : Open(Load(cp), chunk)

(* initial_checkpoint.json, or initial_snapshot.json and the empty logs.   *)
WriteInitial ==
  /\ At("initial")
  /\ disk' = [disk EXCEPT ![proc.run].initial = Canonical(proc.cp)]
  /\ Goto(IF edition = "M3" THEN "zero" ELSE "loop")
  /\ Rest

(* The first checkpoint is named after minute 0 whatever its minute is.    *)
StoreAt(m, cp) == [disk EXCEPT ![proc.run].checkpoints =
                     [k \in DOMAIN @ \cup {m} |-> IF k = m THEN Canonical(cp) ELSE @[k]]]
WriteZero == At("zero") /\ disk' = StoreAt(0, proc.cp) /\ Goto("construct") /\ Rest

(* SocietyEngine checks the checkpoint it is given; a refusal is raised     *)
(* outside the try, and the directory stays IN_PROGRESS.                   *)
Construct ==
  /\ At("construct")
  /\ IF Accepted(proc.cp) /\ proc.cp.minute < EndMinute THEN Goto("loop") ELSE proc' = None
  /\ UNCHANGED disk /\ Rest

Least(S) == CHOOSE x \in S : \A y \in S : x <= y
NextCheckpoint(minute) == ((minute \div Interval) + 1) * Interval
TargetOfChunk(minute, chunk) == Least({EndMinute, minute + chunk})
Target(minute, chunk) ==
  Least({EndMinute, minute + chunk} \cup
        IF edition = "M3" THEN {NextCheckpoint(minute)} ELSE {})

(* advance_to: the minutes up to the target, in memory.                    *)
AdvanceChunk ==
  /\ At("loop") /\ proc.cp.minute < EndMinute
  /\ LET target == Target(proc.cp.minute, proc.chunk)
         there == FoldLeft(LAMBDA w, m : Committed(w), proc.cp,
                           [i \in 1 .. target - proc.cp.minute |-> i])
     IN  proc' = [proc EXCEPT !.cp = there, !.pending = Since(there.log, proc.cp.log),
                              !.at = "append"]
  /\ UNCHANGED disk /\ Rest

OfKind(records, kind) ==
  FoldLeft(LAMBDA kept, x : IF x.kind = kind THEN Append(kept, x) ELSE kept, <<>>, records)

(* Every log is opened for appending.                                      *)
Written(d, authority, byKind) ==
  [d EXCEPT !.log = @ \o authority, !.files = [k \in Kinds |-> @[k] \o byKind[k]]]

(* SocietyRunWriter.append: each record into the authority log and the log *)
(* of its kind.  RunWriter.append has only the latter.                     *)
AfterAppend(minute) ==
  IF edition = "M3" /\ minute % Interval = 0 THEN "checkpoint" ELSE "loop"
AppendRecords ==
  /\ At("append")
  /\ disk' = [disk EXCEPT ![proc.run] =
       Written(@, proc.pending, [k \in Kinds |-> OfKind(proc.pending, k)])]
  /\ proc' = [proc EXCEPT !.pending = <<>>, !.at = AfterAppend(proc.cp.minute)]
  /\ Rest

(* write_periodic_checkpoint: the child replaces the file atomically.      *)
WriteCheckpoint ==
  /\ At("checkpoint")
  /\ disk' = StoreAt(proc.cp.minute, proc.cp) /\ Goto("loop") /\ Rest

(* The end of the run: final checkpoint, the last periodic one once more,  *)
(* summary, metadata.  The invariants asserted first were asserted by the   *)
(* engine's own last commit.                                               *)
WriteFinal ==
  /\ At("loop") /\ proc.cp.minute >= EndMinute
  /\ disk' = [disk EXCEPT ![proc.run].final = Canonical(proc.cp)]
  /\ Goto(IF edition = "M3" THEN "last" ELSE "summary")
  /\ Rest
WriteLast == At("last") /\ disk' = StoreAt(proc.cp.minute, proc.cp) /\ Goto("summary") /\ Rest

Summary(cp, d) ==
  IF edition = "M3" THEN [final |-> Canonical(cp), log |-> cp.log]
  ELSE [final |-> Public(cp), log |-> d.files]
WriteSummary ==
  /\ At("summary")
  /\ disk' = [disk EXCEPT ![proc.run].summary = Summary(proc.cp, Dir)]
  /\ Goto("metadata") /\ Rest
Complete ==
  /\ At("metadata")
  /\ disk' = [disk EXCEPT ![proc.run].status = "COMPLETED"]
  /\ proc' = None /\ Rest

UnlinkedAfterFailure(d) ==
  [d EXCEPT !.status = "FAILED",
            !.checkpoints = [m \in DOMAIN @ \ {proc.cp.minute} |-> @[m]]]
AfterFailure(d) == [d EXCEPT !.status = "FAILED"]

(* The writer child dies or fails: its target keeps what it was, the        *)
(* parent raises.  Only the writes inside the try mark the run FAILED.      *)
ChildFails ==
  /\ edition = "M3"
  /\ \/ At("initial") \/ At("zero") \/ At("checkpoint") \/ At("last")
     \/ At("loop") /\ proc.cp.minute >= EndMinute
  /\ disk' = IF proc.at \in {"initial", "zero"} THEN disk
             ELSE [disk EXCEPT ![proc.run] = AfterFailure(@)]
  /\ proc' = None /\ Rest

(* The process is killed.  An append in progress leaves a prefix behind;    *)
(* the logs by kind, which nothing reads before the run completes, are cut  *)
(* at the same record here.                                                *)
Crash ==
  /\ proc # None
  /\ \E n \in 0 .. Len(proc.pending) :
       LET kept == SubSeq(proc.pending, 1, n)
       IN  disk' = [disk EXCEPT ![proc.run] =
             Written(@, kept, [k \in Kinds |-> OfKind(kept, k)])]
  /\ proc' = None /\ Rest

-----------------------------------------------------------------------------
(* Replay.                                                                 *)

(* check_cursor: the stored checkpoints at the cursor that was reached.    *)
CheckCursor(acc, d) ==
  LET here == {m \in acc.expected : d.checkpoints[m].count = acc.cp.count}
      wrong == {m \in here : d.checkpoints[m] # Canonical(acc.cp)}
  IN  [acc EXCEPT !.expected = @ \ here, !.mismatches = @ \cup wrong]

(* One envelope of authority.jsonl; None once a record is refused.         *)
ReplayRecord(acc, x, d) ==
  LET cp == IF x.kind = "transaction" THEN ApplySociety(acc.cp, x.payload) ELSE acc.cp
  IN  IF acc.cp = None \/ x.sequence <= acc.cp.count THEN acc
      ELSE IF cp = None \/ x.sequence # acc.cp.count + 1 THEN [acc EXCEPT !.cp = None]
      ELSE CheckCursor([acc EXCEPT !.cp = [cp EXCEPT !.count = @ + 1, !.log = Append(@, x)]], d)

(* A finished comparison.  A replay that raises has another verdict and no *)
(* report: "record" if a record does not follow, "invariants" if the state *)
(* it arrives at is refused.                                               *)
Compared(match) == IF match THEN "match" ELSE "mismatch"

(* _verify_society_run, from the initial or from a given checkpoint.  The   *)
(* invariants are asserted before the comparison is reported.              *)
VerifySociety(d, from) ==
  LET start == CheckCursor([cp |-> from, mismatches |-> {},
                            expected |-> IF from = d.initial THEN DOMAIN d.checkpoints ELSE {}], d)
      end == FoldLeft(LAMBDA acc, x : ReplayRecord(acc, x, d), start, d.log)
  IN  IF end.cp = None THEN "record"
      ELSE IF ~Accepted(end.cp) THEN "invariants"
      ELSE Compared(/\ Canonical(end.cp) = d.final /\ d.final = d.summary.final
                    /\ end.cp.log = d.summary.log
                    /\ end.mismatches \cup end.expected = {})

(* replay_run of M1: the transactions alone rebuild the state; the events  *)
(* are counted against its cursor.                                         *)
VerifyTown(d) ==
  LET step(w, x) == IF w = None \/ x.payload.body.id # w.version + 1 THEN None
                    ELSE ApplyTown(w, x.payload)
      end == FoldLeft(step, Fresh, d.files["transaction"])
  IN  IF end = None THEN "record"
      ELSE IF Len(end.events) # Len(d.files["event"]) THEN "invariants"
      ELSE Compared(/\ Public(end) = d.summary.final /\ d.files = d.summary.log
                    /\ Public(end) = Public(d.final))

(* A run without its summary is refused as incomplete.                     *)
Replay ==
  /\ \E r \in Run :
       /\ disk[r] # None /\ disk[r].summary # None
       /\ \E from \in IF edition = "M3" THEN Stored(disk[r]) ELSE {disk[r].initial} :
            report' = [run |-> r, from |-> from,
                       verdict |-> IF edition = "M3" THEN VerifySociety(disk[r], from)
                                   ELSE VerifyTown(disk[r])]
  /\ UNCHANGED <<edition, plot, proc, disk>>

Work ==
  \/ WriteInitial \/ WriteZero \/ Construct \/ AdvanceChunk \/ AppendRecords
  \/ WriteCheckpoint \/ WriteFinal \/ WriteLast \/ WriteSummary \/ Complete

Next == StartFresh \/ Resume \/ Work \/ ChildFails \/ Crash \/ Replay
Spec == Init /\ [][Next]_vars

-----------------------------------------------------------------------------
(* Properties.                                                             *)

Directories == {disk[r] : r \in Run} \ {None}

(* docs/adr/0011: a checkpoint file is never ahead of the authority log of *)
(* its run and names exactly the records before it, wherever the process   *)
(* or a writer child was killed.                                           *)
LogCoversCheckpoints ==
  edition = "M3" =>
    \A d \in Directories : \A cp \in Stored(d) :
      /\ cp.count - d.first \in 0 .. Len(d.log)
      /\ SubSeq(cp.log, d.first + 1, cp.count) = SubSeq(d.log, 1, cp.count - d.first)
      /\ Len(cp.log) = cp.count

(* docs/qa/M3_ACCEPTANCE.md, 12: a replay from the start or from any        *)
(* checkpoint, of a whole or of a resumed run, refuses no record, and one   *)
(* that reports has rebuilt the final state, ledgers, chain and every       *)
(* checkpoint in between (as canonical JSON).  It is refused for the state  *)
(* it arrives at only where the final checkpoint, as the run stored it,     *)
(* would be refused too.                                                   *)
ReplaysAgree ==
  report # None =>
    \/ report.verdict = "match"
    \/ /\ edition = "M3" /\ report.verdict = "invariants"
       /\ ~Accepted(disk[report.run].final)

(* docs/qa/M3_ACCEPTANCE.md, 11 and 12: whatever was killed, resumed, or    *)
(* driven in other chunks, two runs of a seed agree on every checkpoint of  *)
(* the same minute, authority cursor and log hash included.                *)
HistoriesAgree ==
  edition = "M3" =>
    \A d, e \in Directories : \A p \in Stored(d), q \in Stored(e) :
      p.minute = q.minute => p = q

(* A completed run holds a checkpoint of every interval since its start and *)
(* of its end, all its records, and logs by kind that project the           *)
(* authority log.                                                          *)
CompletedRunsWhole ==
  \A d \in Directories :
    d.status = "COMPLETED" =>
      /\ d.final.minute = EndMinute
      /\ edition = "M3" =>
           /\ \A m \in d.initial.minute + 1 .. EndMinute :
                m % Interval = 0 \/ m = EndMinute =>
                  m \in DOMAIN d.checkpoints /\ d.checkpoints[m].minute = m
           /\ Len(d.log) = d.final.count - d.first
           /\ \A k \in Kinds : d.files[k] = OfKind(d.log, k)

(* A run directory is whole: at every moment as far as it goes, and to its *)
(* end once it is completed.                                               *)
DirectoriesWhole == LogCoversCheckpoints /\ CompletedRunsWhole

(* write_checkpoint_isolated: a failed or killed writer leaves a committed  *)
(* target intact, and writing the last one twice changes nothing.          *)
CheckpointsStable ==
  [][\A r \in Run : disk[r] # None =>
       /\ DOMAIN disk[r].checkpoints \subseteq DOMAIN disk'[r].checkpoints
       /\ \A m \in DOMAIN disk[r].checkpoints :
            disk'[r].checkpoints[m] = disk[r].checkpoints[m]]_vars

(* docs/qa/M3_ACCEPTANCE.md, 12: "Resume and authoritative replay have zero *)
(* final/checkpoint/log mismatch".  Less than that: every checkpoint of a   *)
(* run can be resumed (SocietyEngine.__init__ accepts it), or at least the  *)
(* replay of the run from its start comes to its report.                   *)
ResumesOrReplays ==
  edition = "M3" /\ report # None /\ report.from = disk[report.run].initial =>
    \/ report.verdict = "match"
    \/ \A cp \in Stored(disk[report.run]) : cp.minute < EndMinute => Accepted(cp)

=============================================================================
