--------------------------- MODULE RegressionTarget ---------------------------
(***************************************************************************)
(* The file that extraction_impl.py writes regressions into, when several  *)
(* executions of `agent-spec-kit run --extract` use it: one after another, *)
(* at the same time, killed, or out of disk.  An extraction reads all of   *)
(* the file, appends a scenario to what it has read, and writes all of it  *)
(* back; whoever starts later imports the file with the other tests.  That *)
(* two runs have it open at once, and write over each other's bytes, is    *)
(* left out: there is nothing to be said about a file after that.          *)
(*                                                                         *)
(* The file is the sequence of what was appended to it.  Of an appended    *)
(* piece of source only matters which scenario and which turns it is of,   *)
(* whether the comment with its fingerprint is there, whether it parses,   *)
(* and whether nothing of it is missing.  What a scenario's source looks   *)
(* like is a constant.  The regression_id is new every time (uuid4): it is *)
(* left out, as is the search for it.                                      *)
(***************************************************************************)
EXTENDS Integers, Sequences, SequencesExt

CONSTANTS
  Run,          \* the executions
  Scenario,     \* the scenarios that extract into the file
  Conversation, \* the concrete turns, of which the fingerprint is made
  Policy,       \* Policy[s]: the duplicate_policy of a scenario
  StartsWithFuture, \* scenarios whose source begins with a __future__ import
  UsesSource,   \* scenarios whose steps use public names of their source
  SourceFirst,  \* scenarios whose source is sorted before the file
  MaxPieces,    \* bound: how long the file gets
  MaxLog        \* bound: how many regressions are written

Policies == {"skip", "replace", "append_variant", "error"}

ASSUME TargetAssumption ==
  /\ Policy \in [Scenario -> Policies]
  /\ StartsWithFuture \subseteq Scenario
  /\ UsesSource \subseteq Scenario
  /\ SourceFirst \subseteq Scenario
  /\ MaxPieces \in Nat
  /\ MaxLog \in Nat

VARIABLES
  file,         \* what is in the file
  pc,           \* where a run is
  new_src,      \* what a run is about to write: what it read, and a piece more
  report,       \* the status of the last extraction, "none" before
  log,          \* everything reported as written, in that order
  mishaps       \* what has gone wrong so far, of Mishap

targetVars == <<file, pc, new_src, report, log, mishaps>>

Mishap ==
  {"overlap",   \* a run read the file while another was about to write it
   "cut"}       \* a write was not finished

Piece == [scenario : Scenario, turns : Conversation,
          marked : BOOLEAN, parses : BOOLEAN, whole : BOOLEAN]

New(s, t) == [scenario |-> s, turns |-> t,
              marked |-> TRUE, parses |-> TRUE, whole |-> TRUE]

(* What can be left of a piece of source that is cut somewhere.            *)
Scraps(p) ==
  {q \in Piece : /\ q.scenario = p.scenario /\ q.turns = p.turns
                 /\ q.marked => p.marked
                 /\ ~ q.whole}

(* What can be on disk of a text that is not all written.                  *)
Begun(text) ==
  {<<>>} \cup
  UNION {{Append(SubSeq(text, 1, k - 1), q) : q \in Scraps(text[k])} :
           k \in DOMAIN text}

(* A text with a piece appended: a decorator that was cut off from its     *)
(* function finds another one, and so parses again.                        *)
Spliced(text, p) ==
  {Append(text, p)} \cup
  IF text # <<>> /\ ~ Last(text).whole
  THEN {Append([text EXCEPT ![Len(text)].parses = TRUE], p)}
  ELSE {}

-----------------------------------------------------------------------------
(* Mutant: looks for the scenario instead of the comment.                  *)
HasScenario(text, t) ==
  \E i \in DOMAIN text : text[i].whole /\ text[i].turns = t

(* _has_fingerprint: the scenario is not part of the fingerprint.          *)
HasFingerprint(text, t) ==
  \E i \in DOMAIN text : text[i].marked /\ text[i].turns = t

(* ast.parse.                                                              *)
Parses(text) == \A i \in DOMAIN text : text[i].parses

(* Importing the file: beyond what ast.parse sees, a __future__ import     *)
(* must come first, and "from <module of the scenario> import <name>"      *)
(* finds only modules that were imported before, in the order of paths.    *)
Importable(text) ==
  /\ Parses(text)
  /\ \A i \in DOMAIN text :
       /\ i > 1 => text[i].scenario \notin StartsWithFuture
       /\ text[i].scenario \in UsesSource => text[i].scenario \in SourceFirst

Extracting(r) == pc[r] \in {"built", "open"}

TargetInit ==
  /\ file = <<>>
  /\ pc = [r \in Run |-> "off"]
  /\ new_src = [r \in Run |-> <<>>]
  /\ report = "none"
  /\ log = <<>>
  /\ mishaps = {}

-----------------------------------------------------------------------------
(* import_paths at the start of a run.                                     *)
Start(r) ==
  /\ pc[r] \in {"off", "crashed"}
  /\ pc' = [pc EXCEPT ![r] = IF Importable(file) THEN "on" ELSE "crashed"]
  /\ UNCHANGED <<file, new_src, report, log, mishaps>>

(* A run that is not extracting, or no longer, and where it is then.       *)
Idle(r, there) ==
  /\ pc' = [pc EXCEPT ![r] = there]
  /\ new_src' = [new_src EXCEPT ![r] = <<>>]

Finish(r, status) ==
  /\ Idle(r, "on")
  /\ report' = status

(* The run is over.                                                        *)
Exit(r) ==
  /\ pc[r] = "on"
  /\ Idle(r, "off")
  /\ UNCHANGED <<file, report, log, mishaps>>

(* The policy skip, and the only place where a policy is looked at.        *)
SkipDuplicate(r) ==
  /\ pc[r] = "on"
  /\ \E s \in Scenario, t \in Conversation :
       Policy[s] = "skip" /\ HasFingerprint(file, t)
  /\ Finish(r, "skipped_duplicate")
  /\ UNCHANGED <<file, log, mishaps>>

(* A file that cannot be read, a body that is not the recorded chain of    *)
(* calls, a source that does not parse or import, or something in the file *)
(* after which no regression parses.                                       *)
Refuse(r) ==
  /\ pc[r] = "on"
  /\ Finish(r, "errored")
  /\ UNCHANGED <<file, log, mishaps>>

(* Mutant: writes what it has spliced without looking.                      *)
BuildUnchecked(r) ==
  /\ pc[r] = "on"
  /\ Len(file) < MaxPieces /\ Len(log) < MaxLog
  /\ \E s \in Scenario, t \in Conversation :
       /\ ~ (Policy[s] = "skip" /\ HasFingerprint(file, t))
       /\ \E text \in Spliced(file, New(s, t)) :
            new_src' = [new_src EXCEPT ![r] = text]
  /\ pc' = [pc EXCEPT ![r] = "built"]
  /\ mishaps' = IF \E q \in Run \ {r} : Extracting(q)
                THEN mishaps \cup {"overlap"} ELSE mishaps
  /\ UNCHANGED <<file, report, log>>

(* Mutant: replaces what was there.                                        *)
BuildReplaces(r) ==
  /\ pc[r] = "on"
  /\ Len(file) < MaxPieces /\ Len(log) < MaxLog
  /\ \E s \in Scenario, t \in Conversation :
       /\ ~ (Policy[s] = "skip" /\ HasFingerprint(file, t))
       /\ \E text \in {<<New(s, t)>>} :
            new_src' = [new_src EXCEPT ![r] = text]
  /\ pc' = [pc EXCEPT ![r] = "built"]
  /\ mishaps' = IF \E q \in Run \ {r} : Extracting(q)
                THEN mishaps \cup {"overlap"} ELSE mishaps
  /\ UNCHANGED <<file, report, log>>

(* The file is read, and a scenario made that is found to parse after it.  *)
(* What was read, and when, is all that counts of the steps up to here.    *)
Build(r) ==
  /\ pc[r] = "on"
  /\ Len(file) < MaxPieces /\ Len(log) < MaxLog
  /\ \E s \in Scenario, t \in Conversation :
       /\ ~ (Policy[s] = "skip" /\ HasFingerprint(file, t))
       /\ \E text \in Spliced(file, New(s, t)) :
            Parses(text) /\ new_src' = [new_src EXCEPT ![r] = text]
  /\ pc' = [pc EXCEPT ![r] = "built"]
  /\ mishaps' = IF \E q \in Run \ {r} : Extracting(q)
                THEN mishaps \cup {"overlap"} ELSE mishaps
  /\ UNCHANGED <<file, report, log>>

-----------------------------------------------------------------------------
(* Path.write_text: opening the file empties it, and what is written comes *)
(* to the disk in parts.                                                   *)
Open(r) ==
  /\ pc[r] = "built"
  /\ \A q \in Run : pc[q] # "open"
  /\ pc' = [pc EXCEPT ![r] = "open"]
  /\ file' = <<>>
  /\ UNCHANGED <<new_src, report, log, mishaps>>

Flush(r) ==
  /\ pc[r] = "open"
  /\ file' \in Begun(new_src[r])
  /\ UNCHANGED <<pc, new_src, report, log, mishaps>>

Write(r) ==
  /\ pc[r] = "open"
  /\ file' = new_src[r]
  /\ log' = Append(log, Last(new_src[r]))
  /\ Finish(r, "written")
  /\ UNCHANGED mishaps

(* No space is left: the status is errored, of what was written a part is. *)
WriteFails(r) ==
  /\ pc[r] = "open"
  /\ Finish(r, "errored")
  /\ mishaps' = mishaps \cup {"cut"}
  /\ UNCHANGED <<file, log>>

(* Opening fails.                                                          *)
OpenFails(r) ==
  /\ pc[r] = "built"
  /\ Finish(r, "errored")
  /\ UNCHANGED <<file, log, mishaps>>

Kill(r) ==
  /\ Extracting(r)
  /\ Idle(r, "off")
  /\ mishaps' = IF pc[r] = "open" THEN mishaps \cup {"cut"} ELSE mishaps
  /\ UNCHANGED <<file, report, log>>

TargetNext ==
  \E r \in Run :
    \/ Start(r) \/ Exit(r)
    \/ SkipDuplicate(r) \/ Refuse(r) \/ Build(r)
    \/ Open(r) \/ OpenFails(r) \/ Flush(r) \/ Write(r) \/ WriteFails(r)
    \/ Kill(r)

TargetSpec == TargetInit /\ [][TargetNext]_targetVars

-----------------------------------------------------------------------------
TargetTypeOK ==
  /\ file \in Seq(Piece)
  /\ pc \in [Run -> {"off", "crashed", "on", "built", "open"}]
  /\ new_src \in [Run -> Seq(Piece)]
  /\ report \in {"none", "written", "skipped_duplicate", "errored"}
  /\ log \in Seq(Piece)
  /\ mishaps \subseteq Mishap

Closed == \A r \in Run : pc[r] # "open"

(* Every piece that is whole was reported as written, and in this order.   *)
InOrder(text) ==
  \E at \in [DOMAIN text -> 0..Len(log)] :
    \A i \in DOMAIN text : text[i].whole =>
      /\ at[i] # 0 /\ text[i] = log[at[i]]
      /\ \A k \in 1..(i - 1) : text[k].whole => at[k] < at[i]

(***************************************************************************)
(* Extractions that overlap lose what others wrote, and ones that are cut  *)
(* short lose more; but what stands whole in the file was reported as      *)
(* written, once for each time it stands there, and in that order.  No     *)
(* extraction loses its own regression: unless a write was cut, the last   *)
(* one reported stands at the end of the file; and as long as they come    *)
(* one after another nothing is lost                                       *)
(* (extraction_impl.py:345-348, 408-437, 458-461, 640-671).                *)
(***************************************************************************)
WrittenInOrder ==
  /\ InOrder(file)
  /\ Closed /\ "cut" \notin mishaps /\ log # <<>> =>
       file # <<>> /\ Last(file) = Last(log)
  /\ Closed /\ mishaps = {} => file = log

(***************************************************************************)
(* However runs overlap or are cut short, a scenario that skips duplicates *)
(* never adds turns the file has (extraction_impl.py:358-366, 472-480).    *)
(***************************************************************************)
SkipKeepsOut ==
  \A i, k \in DOMAIN file :
    i < k /\ file[i].turns = file[k].turns /\ file[i].marked
      => Policy[file[k].scenario] # "skip"

(***************************************************************************)
(* An extraction may lose what others wrote, and read what others have     *)
(* half written: what it leaves when it is done still parses               *)
(* (extraction_impl.py:411-422, 644-655).                                  *)
(***************************************************************************)
StaysParsable == mishaps \subseteq {"overlap"} /\ Closed => Parses(file)

=============================================================================
