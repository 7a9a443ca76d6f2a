------------------------------ MODULE MapReduce ------------------------------
(***************************************************************************)
(* The word count of Homework4: a splitter cuts a text in three and puts   *)
(* the parts in a bucket, a mapper counts the words of a part, a reducer   *)
(* adds up the counts.  The objects have fixed names, so jobs share them.  *)
(*                                                                         *)
(* A job is a client that calls the splitter, the mapper for each part, in *)
(* any order or all at once, and the reducer, goes on when the calls are   *)
(* answered with success, and repeats a call that failed or gives up.      *)
(* Lines are what the splitter cuts between: a line is one word.           *)
(***************************************************************************)
EXTENDS Naturals, Sequences, FiniteSets

CONSTANTS
    Jobs, Words,
    Text,       \* the text of each job, a sequence of lines
    Faults,     \* calls of S3: "error" has no effect, "lost" has one
    None

ASSUME TextAssumption == Text \in [Jobs -> Seq(Words)]
ASSUME FaultsAssumption == Faults \subseteq {"error", "lost"}

VARIABLES
    split, result, final,   \* split_i.txt, split_i_result.json, final_result.json
    pc,         \* of each job
    next,       \* the part the splitter will upload, or the file the reducer will read
    mapper,     \* the mapper's call for each part
    held,       \* the part it has downloaded
    total,      \* total_counts of the reducer's call
    produced,   \* history: the final result of a job that is done
    overlapped  \* history: the jobs that ran at the same time as another

bucketVars == <<split, result, final>>
callVars == <<next, mapper, held, total>>
historyVars == <<produced, overlapped>>
vars == <<bucketVars, pc, callVars, historyVars>>

Parts == 1..3
Part == [job : Jobs, from : Nat, to : Nat]
Counts == [Words -> Nat]
ASSUME NoneAssumption == None \notin Part \cup Counts

NoWords == [w \in Words |-> 0]
Plus(c, d) == [w \in Words |-> c[w] + d[w]]

\* Mutant: the size of a part is rounded down, and the last part has it too.
ToRoundedDown(n, i) == i * (n \div 3)

\* chunk_size, and the lines of a part: a slice ends where the text does, the
\* last part is the rest.
ChunkSize(n) == n \div 3 + (IF n % 3 > 0 THEN 1 ELSE 0)
From(n, i) == (i - 1) * ChunkSize(n) + 1
To(n, i) == IF i = 3 \/ i * ChunkSize(n) > n THEN n ELSE i * ChunkSize(n)
PartOf(j, i) == [job |-> j, from |-> From(Len(Text[j]), i), to |-> To(Len(Text[j]), i)]

\* The mapper's counts of the lines from one to another.
WordCount(j, from, to) == [w \in Words |-> Cardinality({p \in from..to : Text[j][p] = w})]
CountOf(part) == WordCount(part.job, part.from, part.to)

Init ==
    /\ split = [i \in Parts |-> None] /\ result = [i \in Parts |-> None] /\ final = None
    /\ pc = [j \in Jobs |-> "start"]
    /\ next = [j \in Jobs |-> 1]
    /\ mapper = [j \in Jobs |-> [i \in Parts |-> "idle"]]
    /\ held = [j \in Jobs |-> [i \in Parts |-> None]]
    /\ total = [j \in Jobs |-> NoWords]
    /\ produced = [j \in Jobs |-> None] /\ overlapped = {}

Active == {j \in Jobs : pc[j] \in {"split", "map", "reduce"}}

Begin(j) ==
    /\ pc[j] = "start"
    /\ pc' = [pc EXCEPT ![j] = "split"]
    /\ overlapped' = overlapped \cup IF Active = {} THEN {} ELSE Active \cup {j}
    /\ UNCHANGED <<bucketVars, callVars, produced>>

\* What a put does to an object, and whether the call goes on.
Outcomes == {"ok"} \cup Faults
Put(object, value, outcome) == IF outcome = "error" THEN object ELSE value

-----------------------------------------------------------------------------
(* split_and_upload: one put after the other; an exception ends the call *)

PutSplit(j) ==
    /\ pc[j] = "split"
    /\ \E outcome \in Outcomes :
        /\ split' = [split EXCEPT ![next[j]] = Put(@, PartOf(j, next[j]), outcome)]
        /\ next' = [next EXCEPT ![j] = IF outcome = "ok" /\ next[j] < 3 THEN @ + 1 ELSE 1]
        /\ pc' = [pc EXCEPT ![j] = IF outcome = "ok" /\ next[j] = 3 THEN "map" ELSE "split"]
    /\ UNCHANGED <<result, final, mapper, held, total, historyVars>>

-----------------------------------------------------------------------------
(* map_words *)

GetSplit(j, i) ==
    /\ pc[j] = "map" /\ mapper[j][i] = "idle"
    /\ mapper' = [mapper EXCEPT ![j][i] = "counting"]
    /\ held' = [held EXCEPT ![j][i] = split[i]]
    /\ UNCHANGED <<bucketVars, pc, next, total, historyVars>>

\* Mutants: the counts are added to those of the call before; a failed put is
\* answered like any other.
PutResultAdded(j, i) ==
    /\ mapper[j][i] = "counting"
    /\ \E outcome \in Outcomes :
        /\ result' = [result EXCEPT ![i] =
                        Put(@, IF @ = None THEN CountOf(held[j][i])
                               ELSE Plus(@, CountOf(held[j][i])), outcome)]
        /\ mapper' = [mapper EXCEPT ![j][i] = IF outcome = "ok" THEN "done" ELSE "idle"]
    /\ held' = [held EXCEPT ![j][i] = None]
    /\ UNCHANGED <<split, final, pc, next, total, historyVars>>
PutResultUnchecked(j, i) ==
    /\ mapper[j][i] = "counting"
    /\ \E outcome \in Outcomes : result' = [result EXCEPT ![i] = Put(@, CountOf(held[j][i]), outcome)]
    /\ mapper' = [mapper EXCEPT ![j][i] = "done"]
    /\ held' = [held EXCEPT ![j][i] = None]
    /\ UNCHANGED <<split, final, pc, next, total, historyVars>>

PutResult(j, i) ==
    /\ mapper[j][i] = "counting"
    /\ \E outcome \in Outcomes :
        /\ result' = [result EXCEPT ![i] = Put(@, CountOf(held[j][i]), outcome)]
        /\ mapper' = [mapper EXCEPT ![j][i] = IF outcome = "ok" THEN "done" ELSE "idle"]
    /\ held' = [held EXCEPT ![j][i] = None]
    /\ UNCHANGED <<split, final, pc, next, total, historyVars>>

-----------------------------------------------------------------------------
(* reduce_words *)

CallReduce(j) ==
    /\ pc[j] = "map" /\ \A i \in Parts : mapper[j][i] = "done"
    /\ pc' = [pc EXCEPT ![j] = "reduce"]
    /\ UNCHANGED <<bucketVars, callVars, historyVars>>

\* A call that fails is repeated from its start.
AddResult(j) ==
    /\ pc[j] = "reduce" /\ next[j] <= 3
    /\ \/ /\ total' = [total EXCEPT ![j] = Plus(@, result[next[j]])]
          /\ next' = [next EXCEPT ![j] = @ + 1]
       \/ /\ "error" \in Faults
          /\ total' = [total EXCEPT ![j] = NoWords]
          /\ next' = [next EXCEPT ![j] = 1]
    /\ UNCHANGED <<bucketVars, pc, mapper, held, historyVars>>

PutFinal(j) ==
    /\ pc[j] = "reduce" /\ next[j] = 4
    /\ \E outcome \in Outcomes :
        /\ final' = Put(final, total[j], outcome)
        /\ pc' = [pc EXCEPT ![j] = IF outcome = "ok" THEN "done" ELSE "reduce"]
        /\ produced' = [produced EXCEPT ![j] = IF outcome = "ok" THEN total[j] ELSE None]
    /\ next' = [next EXCEPT ![j] = 1]
    /\ total' = [total EXCEPT ![j] = NoWords]
    /\ UNCHANGED <<split, result, mapper, held, overlapped>>

\* The client gives up after a call that failed; none of its calls runs.
GiveUp(j) ==
    /\ j \in Active /\ next[j] = 1 /\ \A i \in Parts : mapper[j][i] # "counting"
    /\ pc' = [pc EXCEPT ![j] = "gone"]
    /\ UNCHANGED <<bucketVars, callVars, historyVars>>

Next ==
    \/ \E j \in Jobs : Begin(j) \/ PutSplit(j) \/ CallReduce(j) \/ AddResult(j) \/ PutFinal(j) \/ GiveUp(j)
    \/ \E j \in Jobs, i \in Parts : GetSplit(j, i) \/ PutResult(j, i)

Spec == Init /\ [][Next]_vars

-----------------------------------------------------------------------------
(* Correctness *)

\* Objects hold parts and counts; a mapper that counts has a part, and what a
\* later call reads is there.
TypeOK ==
    /\ split \in [Parts -> Part \cup {None}]
    /\ result \in [Parts -> Counts \cup {None}] /\ final \in Counts \cup {None}
    /\ pc \in [Jobs -> {"start", "split", "map", "reduce", "done", "gone"}]
    /\ next \in [Jobs -> 1..4] /\ \A j \in Jobs : pc[j] = "split" => next[j] \in Parts
    /\ mapper \in [Jobs -> [Parts -> {"idle", "counting", "done"}]]
    /\ held \in [Jobs -> [Parts -> Part \cup {None}]]
    /\ \A j \in Jobs, i \in Parts : mapper[j][i] = "counting" <=> held[j][i] # None
    /\ \A j \in Jobs : pc[j] = "reduce" => \A i \in Parts : result[i] # None
    /\ total \in [Jobs -> Counts] /\ produced \in [Jobs -> Counts \cup {None}]
    /\ overlapped \subseteq Jobs

\* A job that no other one overlapped ends with the counts of its text, though
\* calls fail half way and are repeated and other jobs have left their objects.
FinalExact ==
    \A j \in Jobs \ overlapped :
        pc[j] = "done" => produced[j] = WordCount(j, 1, Len(Text[j]))

\* Also jobs that overlap only ever mix whole parts: a final result is that of
\* the first part of some job, the second of some and the third of some.
FinalOfWholeParts ==
    \A j \in Jobs : pc[j] = "done" =>
        \E a, b, c \in Jobs :
            produced[j] = Plus(Plus(CountOf(PartOf(a, 1)), CountOf(PartOf(b, 2))), CountOf(PartOf(c, 3)))
=============================================================================
