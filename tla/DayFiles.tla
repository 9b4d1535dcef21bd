------------------------------- MODULE DayFiles -------------------------------
(***************************************************************************)
(* The chained log of a project: log/<day>.jsonl, as exportLog and         *)
(* appendLogEntry of src/projdb/export.ts write them, and as verify.ts and *)
(* rebuild.ts read them, in the order of their names.                      *)
(*                                                                         *)
(* The day files are a function from Days to sequences of entries.  A hash *)
(* is modelled by what it hashes: an entry's is the sequence of the bodies *)
(* that ends with its own.                                                 *)
(***************************************************************************)
EXTENDS Naturals, Sequences, FiniteSets

CONSTANT MaxDay  \* bound on the days that pass

ASSUME MaxDayAssumption == MaxDay \in Nat

Days == 1..MaxDay

\* The lines of the files, by day and place: read in name order.
LinesIn(f) == UNION {{<<d, i>> : i \in DOMAIN f[d]} : d \in Days}
LineIn(f, x) == f[x[1]][x[2]]
Before(x, y) == x[1] < y[1] \/ (x[1] = y[1] /\ x[2] < y[2])
Latest(lines) == CHOOSE x \in lines : \A y \in lines \ {x} : Before(y, x)

HashOf(entry) == Append(entry.prev, entry.body)
HashAfter(f, lines) == IF lines = {} THEN <<>> ELSE HashOf(LineIn(f, Latest(lines)))

FirstFileTip(f) ==  \* a mutant of TipHash
  HashAfter(f, {x \in LinesIn(f) : \A y \in LinesIn(f) : x[1] <= y[1]})

\* tipHash: the hash of the last line of the last day file.
TipHash(f) == HashAfter(f, LinesIn(f))

\* appendLogEntry: one line more in the file of its day, chained from the tip.
Appended(f, d, body) == [f EXCEPT ![d] = Append(@, [body |-> body, prev |-> TipHash(f)])]

\* The numbers of a set, in ascending order.
InOrder(nums) ==
  [k \in 1..Cardinality(nums) |->
     CHOOSE n \in nums : Cardinality({i \in nums : i <= n}) = k]

\* exportLog: a log, each of its bodies under a day, chained anew from its
\* first.  Of the days given, the files of those that have a body are
\* rewritten; all others are left as they are.
Rechained(f, log, days) ==
  LET entryOf == [i \in DOMAIN log |->
                    [body |-> log[i].body, prev |-> [j \in 1..(i - 1) |-> log[j].body]]]
      On(d) == InOrder({i \in DOMAIN log : log[i].day = d})
  IN  [d \in Days |-> IF d \in days /\ On(d) # <<>>
                      THEN [k \in DOMAIN On(d) |-> entryOf[On(d)[k]]]
                      ELSE f[d]]

\* verify's chain check, over the day files in name order.
Chained(f) ==
  \A x \in LinesIn(f) : LineIn(f, x).prev = HashAfter(f, {y \in LinesIn(f) : Before(y, x)})
=============================================================================
