---------------------------- MODULE EntropyProofs ----------------------------
(***************************************************************************)
(* The transcript and the running sources of Entropy, for any number of    *)
(* sessions, any target, any selection of sources, and threads that feed,  *)
(* fail and retry with whatever session they read earlier.                 *)
(*                                                                         *)
(* The argument: sources are visited in the order of their bits, and       *)
(* nothing that is still missing precedes what is done (Books); so a       *)
(* record that is added has a greater source than all that are there.  A   *)
(* source runs in one state of the machine only, and every way out of it   *)
(* stops it (LeftIsOff).                                                   *)
(***************************************************************************)
EXTENDS Entropy, FiniteSetTheorems, SequenceTheorems, TLAPS

Leaves == {"Idle", "Source", "Error", "Ready"}
Record == [source : Sources, units : 1..(2 * Target)]
Contexts ==
  [leaf : Leaves, session : 0..MaxSessions, selected : SUBSET Sources,
   completed : SUBSET Sources, skipped : SUBSET Sources, current : Sources \cup {NoSource},
   units : 0..(2 * Target), hashing : BOOLEAN, records : Seq(Record),
   running : SUBSET Sources, request : BOOLEAN]

-----------------------------------------------------------------------------
(* The inductive invariant, of a context.                                  *)

Done(x) == x.completed \cup x.skipped
Off(x) == x.running = {} /\ x.hashing = FALSE

\* One record per completed source, in strict order, each of enough units.
Kept(records, completed) ==
  /\ Len(records) = Cardinality(completed)
  /\ \A i \in 1..Len(records) : records[i].source \in completed /\ records[i].units >= Target
  /\ \A s \in completed : \E i \in 1..Len(records) : records[i].source = s
  /\ \A i, j \in 1..Len(records) : i < j => records[i].source < records[j].source

\* What is done was selected, and precedes all that is missing.
Books(x) ==
  /\ x \in Contexts /\ Kept(x.records, x.completed)
  /\ Done(x) \subseteq x.selected /\ x.completed \cap x.skipped = {}
  /\ \A s \in Done(x), t \in Missing(x) : s < t

\* The current source is the first that is missing.
AtSource(x, s) == s \in Missing(x) /\ \A t \in Missing(x) : s <= t

Good(x) ==
  /\ Books(x)
  /\ x.leaf = "Source" => /\ AtSource(x, x.current) /\ x.units < Target
                          /\ x.running = {x.current} \cap Sensors /\ x.hashing = TRUE
  /\ x.leaf # "Source" => Off(x) /\ x.units = 0
  /\ x.leaf = "Error" => AtSource(x, x.current)
  /\ x.leaf = "Ready" => Missing(x) = {}
  /\ x.leaf = "Idle" => x.completed = {} /\ x.skipped = {}

\* The threads' own variables.
Threads ==
  /\ uiSession \in 0..MaxSessions /\ sampled \in [Sensors -> 0..MaxSessions]
  /\ camPc \in {"wait", "open", "frame", "feed", "release", "stop", "fail"}
  /\ camSession \in 0..MaxSessions /\ camRet \in {"ok", "end", "error"}

IInv == Good(c) /\ Threads

-----------------------------------------------------------------------------
(* Sources are few and ordered; records.                                   *)

LEMMA FirstExists ==
  ASSUME NEW S \in SUBSET Sources, S # {}
  PROVE  \E s \in S : \A t \in S : s <= t
<1>1. Sources = {1, 2, 3, 4}
  BY DEF Sources, Touch, Imu, Camera, Microphone
<1>2. CASE 1 \in S
  BY <1>1, <1>2
<1>3. CASE 1 \notin S /\ 2 \in S
  BY <1>1, <1>3
<1>4. CASE 1 \notin S /\ 2 \notin S /\ 3 \in S
  BY <1>1, <1>4
<1>5. CASE 1 \notin S /\ 2 \notin S /\ 3 \notin S
  <2>1. S = {4}
    BY <1>1, <1>5
  <2> QED
    BY <2>1
<1> QED
  BY <1>2, <1>3, <1>4, <1>5

LEMMA SourcesAre == Sources = {1, 2, 3, 4} /\ IsFiniteSet(Sources) /\ Sources \subseteq Int
<1>1. Sources = 1..4
  BY DEF Sources, Touch, Imu, Camera, Microphone
<1>2. IsFiniteSet(1..4)
  <2>1. 1 \in Int /\ 4 \in Int
    OBVIOUS
  <2> QED
    BY <2>1, FS_Interval, Zenon
<1> QED
  BY <1>1, <1>2

\* A record of a greater source keeps the books.
LEMMA RecordKeeps ==
  ASSUME NEW records \in Seq(Record), NEW completed \in SUBSET Sources, Kept(records, completed),
         NEW r \in Record, r.units >= Target, \A s \in completed : s < r.source
  PROVE  LET longer == SubSeq(records, 1, Cardinality(completed)) \o <<r>>
         IN  longer \in Seq(Record) /\ Kept(longer, completed \cup {r.source})
<1> DEFINE longer == SubSeq(records, 1, Cardinality(completed)) \o <<r>>
<1>1. longer = Append(records, r)
  <2>1. SubSeq(records, 1, Cardinality(completed)) = records
    BY SubSeqFull DEF Kept
  <2> QED
    BY <2>1, AppendIsConcat
<1> HIDE DEF longer
<1>2. /\ longer \in Seq(Record)
      /\ Len(longer) = Len(records) + 1
      /\ \A i \in 1..Len(records) : longer[i] = records[i]
      /\ longer[Len(records) + 1] = r
  BY <1>1, AppendProperties
<1>3. Len(records) \in Nat
  BY LenProperties
<1>4. r.source \in Sources /\ r.source \notin completed
  BY SourcesAre DEF Record
<1>5. Cardinality(completed \cup {r.source}) = Cardinality(completed) + 1
  BY <1>4, SourcesAre, FS_Subset, FS_AddElement
<1>6. Len(longer) = Cardinality(completed \cup {r.source})
  BY <1>2, <1>5 DEF Kept
<1>7. \A i \in 1..Len(longer) : longer[i].source \in completed \cup {r.source} /\ longer[i].units >= Target
  BY <1>2, <1>3 DEF Kept
<1>8. \A s \in completed \cup {r.source} : \E i \in 1..Len(longer) : longer[i].source = s
  <2>1. \A s \in completed : \E i \in 1..Len(longer) : longer[i].source = s
    BY <1>2, <1>3 DEF Kept
  <2>2. Len(records) + 1 \in 1..Len(longer) /\ longer[Len(records) + 1].source = r.source
    BY <1>2, <1>3
  <2> QED
    BY <2>1, <2>2
<1>9. \A i, j \in 1..Len(longer) : i < j => longer[i].source < longer[j].source
  <2> SUFFICES ASSUME NEW i \in 1..Len(longer), NEW j \in 1..Len(longer), i < j
               PROVE  longer[i].source < longer[j].source
    OBVIOUS
  <2>1. CASE j \in 1..Len(records)
    BY <1>2, <1>3, <2>1 DEF Kept
  <2>2. CASE j = Len(records) + 1
    <3>1. i \in 1..Len(records)
      BY <1>3, <2>2
    <3> QED
      BY <1>2, <2>2, <3>1 DEF Kept
  <2> QED
    BY <1>2, <1>3, <2>1, <2>2
<1> QED
  BY <1>2, <1>6, <1>7, <1>8, <1>9 DEF Kept, longer

-----------------------------------------------------------------------------
(* The transitions of the machine.                                         *)

\* A source that is left is off, whatever is still to be kept of its session.
LEMMA LeftIsOff ==
  ASSUME NEW x \in Contexts,
         x.leaf = "Source" => x.running \subseteq {x.current},
         x.leaf # "Source" => Off(x) /\ x.units = 0
  PROVE  /\ Left(x) \in Contexts /\ Off(Left(x)) /\ Left(x).units = 0
         /\ Left(x).leaf = x.leaf /\ Left(x).session = x.session /\ Left(x).selected = x.selected
         /\ Left(x).completed = x.completed /\ Left(x).skipped = x.skipped
         /\ Left(x).records = x.records /\ Left(x).current = x.current
         /\ Left(x).request = x.request
<1>1. 0 \in 0..(2 * Target)
  BY EntropyAssumption
<1>2. CASE x.leaf = "Source"
  BY <1>1, <1>2 DEF Left, Exit, Off, Contexts
<1>3. CASE x.leaf # "Source"
  BY <1>3 DEF Left
<1> QED
  BY <1>2, <1>3

\* A source that is entered runs, or is off again after the failure.
LEMMA EntryGood ==
  ASSUME NEW x, Books(x), Off(x), NEW s, AtSource(x, s), NEW z \in Entry(x, s)
  PROVE  Good(z) /\ z.session = x.session
<1> DEFINE entered == [x EXCEPT !.current = s, !.units = 0]
<1>1. s \in Sources /\ x \in Contexts
  BY DEF AtSource, Missing, Books, Contexts
<1>10. 0 \in 0..(2 * Target)
  BY EntropyAssumption
<1>2. /\ entered \in Contexts /\ entered.leaf = x.leaf /\ entered.session = x.session
      /\ entered.selected = x.selected /\ entered.completed = x.completed
      /\ entered.skipped = x.skipped /\ entered.records = x.records
      /\ entered.current = s /\ entered.units = 0 /\ entered.running = {} /\ entered.hashing = FALSE
      /\ entered.request \in BOOLEAN
  BY <1>1, <1>10 DEF Contexts, Off
<1>3. PICK y \in {entered} : \/ z = [y EXCEPT !.leaf = "Source", !.hashing = TRUE,
                                      !.running = IF s \in Sensors THEN @ \cup {s} ELSE @,
                                      !.request = @ \/ s = Camera]
                            \/ z = [y EXCEPT !.leaf = "Error", !.hashing = FALSE, !.running = @ \ {s}]
  BY DEF Entry
<1>4. y = entered
  BY <1>3
<1> HIDE DEF entered
<1>5. /\ z \in Contexts /\ z.leaf \in {"Source", "Error"} /\ z.session = x.session
      /\ z.selected = x.selected /\ z.completed = x.completed
      /\ z.skipped = x.skipped /\ z.records = x.records /\ z.current = s /\ z.units = 0
      /\ z.leaf = "Source" => z.running = {s} \cap Sensors /\ z.hashing = TRUE
      /\ z.leaf = "Error" => Off(z)
  <2>1. CASE z = [y EXCEPT !.leaf = "Error", !.hashing = FALSE, !.running = @ \ {s}]
    BY <1>1, <1>2, <1>4, <2>1 DEF Contexts, Off, Leaves
  <2>2. CASE z = [y EXCEPT !.leaf = "Source", !.hashing = TRUE,
                            !.running = IF s \in Sensors THEN @ \cup {s} ELSE @,
                            !.request = @ \/ s = Camera]
    <3>1. (y.request \/ s = Camera) \in BOOLEAN
      BY Zenon
    <3>2. (IF s \in Sensors THEN y.running \cup {s} ELSE y.running) = {s} \cap Sensors
      BY <1>2, <1>4
    <3>3. {s} \cap Sensors \in SUBSET Sources
      BY <1>1
    <3>4. PICK running \in {{s} \cap Sensors}, request \in BOOLEAN :
            z = [y EXCEPT !.leaf = "Source", !.hashing = TRUE, !.running = running, !.request = request]
      BY <2>2, <3>1, <3>2
    <3> QED
      BY <1>1, <1>2, <1>4, <3>3, <3>4 DEF Contexts, Leaves
  <2> QED
    BY <1>3, <2>1, <2>2
<1>6. Missing(z) = Missing(x) /\ Done(z) = Done(x)
  BY <1>5 DEF Missing, Done
<1>7. Books(z)
  BY <1>5, <1>6 DEF Books
<1>8. AtSource(z, z.current)
  BY <1>5, <1>6 DEF AtSource
<1>9. 0 < Target
  BY EntropyAssumption
<1> QED
  BY <1>5, <1>7, <1>8, <1>9 DEF Good

\* The next source, or the end: from a machine whose books are right and whose source stops.
LEMMA AdvanceGood ==
  ASSUME NEW x, Books(x),
         x.leaf = "Source" => x.running \subseteq {x.current},
         x.leaf # "Source" => Off(x) /\ x.units = 0,
         NEW z \in Advance(x)
  PROVE  Good(z) /\ z.session = x.session
<1> DEFINE y == Left(x)
<1>1. x \in Contexts
  BY DEF Books
<1>2. /\ y \in Contexts /\ Off(y) /\ y.units = 0 /\ y.session = x.session
      /\ y.selected = x.selected /\ y.completed = x.completed /\ y.skipped = x.skipped
      /\ y.records = x.records
  BY <1>1, LeftIsOff
<1>3. Missing(y) = Missing(x) /\ Done(y) = Done(x)
  BY <1>2 DEF Missing, Done
<1>4. Books(y)
  BY <1>2, <1>3 DEF Books
<1>5. CASE Missing(y) = {}
  <2>1. z = [y EXCEPT !.leaf = "Ready", !.current = NoSource, !.units = 0]
    BY <1>5 DEF Advance
  <2> HIDE DEF y
  <2>2. /\ z \in Contexts /\ Off(z) /\ z.units = 0 /\ z.leaf = "Ready" /\ z.session = x.session
        /\ z.selected = x.selected /\ z.completed = x.completed /\ z.skipped = x.skipped
        /\ z.records = x.records
    BY <1>2, <2>1, EntropyAssumption DEF Contexts, Leaves, Off
  <2>3. Missing(z) = {} /\ Done(z) = Done(x)
    BY <1>3, <1>5, <2>2 DEF Missing, Done
  <2>4. Books(z)
    BY <2>2, <2>3 DEF Books
  <2> QED
    BY <2>2, <2>3, <2>4 DEF Good
<1>6. CASE Missing(y) # {}
  <2> DEFINE s == CHOOSE s \in Missing(y) : \A t \in Missing(y) : s <= t
  <2>1. Missing(y) \in SUBSET Sources
    BY <1>2 DEF Missing, Contexts
  <2>2. AtSource(y, s)
    <3>1. \E t \in Missing(y) : \A u \in Missing(y) : t <= u
      BY <2>1, <1>6, FirstExists
    <3> QED
      BY <3>1 DEF AtSource
  <2>3. z \in Entry(y, s)
    BY <1>6 DEF Advance
  <2> HIDE DEF y, s
  <2> QED
    BY <1>2, <1>4, <2>2, <2>3, EntryGood
<1> QED
  BY <1>5, <1>6

LEMMA FailedGood ==
  ASSUME NEW x, Books(x), x.leaf = "Source", x.running \subseteq {x.current}, AtSource(x, x.current)
  PROVE  Good(Failed(x)) /\ Failed(x).session = x.session
<1> DEFINE y == Left(x)
           z == Failed(x)
<1>1. x \in Contexts
  BY DEF Books
<1>2. /\ y \in Contexts /\ Off(y) /\ y.units = 0 /\ y.session = x.session
      /\ y.selected = x.selected /\ y.completed = x.completed /\ y.skipped = x.skipped
      /\ y.records = x.records /\ y.current = x.current
  BY <1>1, LeftIsOff
<1>3. z = [y EXCEPT !.leaf = "Error"]
  BY DEF Failed
<1> HIDE DEF y, z
<1>4. /\ z \in Contexts /\ Off(z) /\ z.units = 0 /\ z.leaf = "Error" /\ z.session = x.session
      /\ z.selected = x.selected /\ z.completed = x.completed /\ z.skipped = x.skipped
      /\ z.records = x.records /\ z.current = x.current
  BY <1>2, <1>3 DEF Contexts, Leaves, Off
<1>5. Missing(z) = Missing(x) /\ Done(z) = Done(x)
  BY <1>4 DEF Missing, Done
<1>6. Books(z) /\ AtSource(z, z.current)
  BY <1>4, <1>5 DEF Books, AtSource
<1>7. Good(z)
  BY <1>4, <1>6 DEF Good
<1> QED
  BY <1>4, <1>7 DEF z

\* A completed source: its record is greater than all before, and what is missing is greater still.
LEMMA RecordedBooks ==
  ASSUME NEW x, Books(x), x.leaf = "Source", AtSource(x, x.current), x.running \subseteq {x.current},
         Target <= x.units
  PROVE  LET y == Recorded(x)
         IN  /\ Books(y) /\ y.leaf = "Source" /\ y.running \subseteq {y.current}
             /\ y.session = x.session
<1> DEFINE r == [source |-> x.current, units |-> x.units]
           longer == SubSeq(x.records, 1, Cardinality(x.completed)) \o <<r>>
           y == Recorded(x)
<1>1. x \in Contexts /\ x.current \in Missing(x) /\ x.current \in Sources
  BY DEF Books, AtSource, Missing, Contexts
<1>2. x.units \in 1..(2 * Target)
  BY <1>1, EntropyAssumption DEF Contexts
<1>3. r \in Record /\ r.source = x.current /\ r.units >= Target
  BY <1>1, <1>2, EntropyAssumption DEF Record
<1>4. \A s \in x.completed : s < x.current
  BY <1>1 DEF Books, Done
<1>5. longer \in Seq(Record) /\ Kept(longer, x.completed \cup {x.current})
  <2>1. x.records \in Seq(Record) /\ x.completed \in SUBSET Sources /\ Kept(x.records, x.completed)
    BY <1>1 DEF Books, Contexts
  <2>2. \A s \in x.completed : s < r.source
    BY <1>3, <1>4
  <2> HIDE DEF r
  <2>3. longer \in Seq(Record) /\ Kept(longer, x.completed \cup {r.source})
    BY <2>1, <2>2, <1>3, RecordKeeps
  <2> QED
    BY <2>3, <1>3
<1>6. y = [x EXCEPT !.records = longer, !.completed = @ \cup {x.current}, !.hashing = FALSE]
  BY DEF Recorded
<1> HIDE DEF r, longer, y
<1>7. /\ y \in Contexts /\ y.leaf = x.leaf /\ y.session = x.session /\ y.selected = x.selected
      /\ y.completed = x.completed \cup {x.current} /\ y.skipped = x.skipped
      /\ y.current = x.current /\ y.records = longer /\ y.running = x.running
  BY <1>1, <1>5, <1>6 DEF Contexts
<1>8. Missing(y) = Missing(x) \ {x.current} /\ Done(y) = Done(x) \cup {x.current}
  BY <1>7 DEF Missing, Done
<1>9. \A s \in Done(y), t \in Missing(y) : s < t
  <2>1. Missing(x) \subseteq Int
    BY <1>1, SourcesAre DEF Missing, Contexts
  <2>2. \A t \in Missing(y) : x.current < t
    BY <1>1, <1>8, <2>1 DEF AtSource
  <2> QED
    BY <1>8, <2>2 DEF Books
<1>10. Done(y) \subseteq y.selected /\ y.completed \cap y.skipped = {}
  BY <1>1, <1>7, <1>8 DEF Books, Missing, Done
<1>11. Books(y)
  BY <1>5, <1>7, <1>9, <1>10 DEF Books
<1> QED
  BY <1>7, <1>11 DEF y

\* What any of the events may lead to, from a good context and whatever session it names.
LEMMA FeedGood ==
  ASSUME NEW x, Good(x), NEW session, NEW s, NEW n \in 1..Target, NEW o \in Feed(x, session, s, n)
  PROVE  Good(o.ctx) /\ o.ctx.session = x.session
<1>1. CASE ~Collecting(x, session, s)
  <2>1. o = Outcome(x, "canceled")
    BY <1>1 DEF Feed
  <2> QED
    BY <2>1 DEF Outcome
<1>2. CASE Collecting(x, session, s)
  <2> DEFINE y == [x EXCEPT !.units = @ + n]
  <2>1. /\ x \in Contexts /\ x.leaf = "Source" /\ x.units \in 0..Target /\ x.units < Target
        /\ x.running = {x.current} \cap Sensors /\ x.hashing = TRUE
    BY <1>2, EntropyAssumption DEF Collecting, Good, Books, Contexts
  <2>2. x.units + n \in 0..(2 * Target)
    BY <2>1, EntropyAssumption
  <2>3. /\ y \in Contexts /\ y.leaf = "Source" /\ y.units = x.units + n /\ y.session = x.session
        /\ y.selected = x.selected /\ y.completed = x.completed /\ y.skipped = x.skipped
        /\ y.records = x.records /\ y.current = x.current /\ y.running = x.running
        /\ y.hashing = TRUE
    BY <2>1, <2>2 DEF Contexts
  <2>4. o \in {Outcome(Failed(x), "error")}
              \cup (IF y.units < Target THEN {Outcome(y, "more")}
                    ELSE {Outcome(z, "done") : z \in Advance(Recorded(y))})
    BY <1>2 DEF Feed
  <2> HIDE DEF y
  <2>5. Missing(y) = Missing(x) /\ Done(y) = Done(x)
    BY <2>3 DEF Missing, Done
  <2>6. Books(y) /\ AtSource(y, y.current)
    BY <2>1, <2>3, <2>5 DEF Good, Books, AtSource
  <2>7. y.running \subseteq {y.current}
    BY <2>1, <2>3
  <2>8. CASE o = Outcome(Failed(x), "error")
    <3>1. Good(Failed(x)) /\ Failed(x).session = x.session
      BY <2>1, FailedGood DEF Good
    <3> QED
      BY <2>8, <3>1 DEF Outcome
  <2>9. CASE y.units < Target /\ o = Outcome(y, "more")
    <3>1. Good(y)
      BY <2>1, <2>3, <2>6, <2>9 DEF Good
    <3> QED
      BY <2>3, <2>9, <3>1 DEF Outcome
  <2>10. CASE ~(y.units < Target) /\ o \in {Outcome(z, "done") : z \in Advance(Recorded(y))}
    <3>1. PICK z \in Advance(Recorded(y)) : o.ctx = z
      BY <2>10 DEF Outcome
    <3>2. Target <= y.units
      BY <2>2, <2>3, <2>10, EntropyAssumption
    <3>3. /\ Books(Recorded(y)) /\ Recorded(y).leaf = "Source"
          /\ Recorded(y).running \subseteq {Recorded(y).current} /\ Recorded(y).session = y.session
      BY <2>3, <2>6, <2>7, <3>2, RecordedBooks
    <3>4. Good(z) /\ z.session = Recorded(y).session
      BY <3>3, AdvanceGood
    <3> QED
      BY <2>3, <3>1, <3>3, <3>4
  <2> QED
    BY <2>4, <2>8, <2>9, <2>10
<1> QED
  BY <1>1, <1>2

LEMMA FailGood ==
  ASSUME NEW x, Good(x), NEW session, NEW s
  PROVE  Good(Fail(x, session, s))
<1>1. CASE Collecting(x, session, s)
  <2>1. /\ Books(x) /\ x.leaf = "Source" /\ AtSource(x, x.current) /\ x.running \subseteq {x.current}
    BY <1>1 DEF Collecting, Good
  <2> QED
    BY <1>1, <2>1, FailedGood DEF Fail
<1>2. CASE ~Collecting(x, session, s)
  BY <1>2 DEF Fail
<1> QED
  BY <1>1, <1>2

LEMMA RetryGood ==
  ASSUME NEW x, Good(x), NEW session, NEW z \in Retry(x, session)
  PROVE  Good(z)
<1>1. CASE x.leaf = "Error" /\ session = x.session
  <2>1. Books(x) /\ Off(x) /\ AtSource(x, x.current)
    BY <1>1 DEF Good
  <2>2. z \in Entry(x, x.current)
    BY <1>1 DEF Retry
  <2> QED
    BY <2>1, <2>2, EntryGood
<1>2. CASE ~(x.leaf = "Error" /\ session = x.session)
  BY <1>2 DEF Retry
<1> QED
  BY <1>1, <1>2

LEMMA SkipGood ==
  ASSUME NEW x, Good(x), NEW session, NEW z \in Skip(x, session)
  PROVE  Good(z)
<1>1. CASE x.leaf \in {"Source", "Error"} /\ session = x.session
  <2> DEFINE y == [x EXCEPT !.skipped = @ \cup {x.current}]
  <2>1. x \in Contexts /\ x.current \in Missing(x) /\ x.current \in Sources /\ AtSource(x, x.current)
    BY <1>1 DEF Good, Books, AtSource, Missing, Contexts
  <2>2. /\ y \in Contexts /\ y.leaf = x.leaf /\ y.session = x.session /\ y.selected = x.selected
        /\ y.completed = x.completed /\ y.skipped = x.skipped \cup {x.current}
        /\ y.current = x.current /\ y.records = x.records /\ y.running = x.running
        /\ y.hashing = x.hashing /\ y.units = x.units
    BY <2>1 DEF Contexts
  <2>3. z \in Advance(y)
    BY <1>1 DEF Skip
  <2> HIDE DEF y
  <2>4. Missing(y) = Missing(x) \ {x.current} /\ Done(y) = Done(x) \cup {x.current}
    BY <2>2 DEF Missing, Done
  <2>5. \A s \in Done(y), t \in Missing(y) : s < t
    <3>1. Missing(x) \subseteq Int
      BY <2>1, SourcesAre DEF Missing, Contexts
    <3>2. \A t \in Missing(y) : x.current < t
      BY <2>1, <2>4, <3>1 DEF AtSource
    <3> QED
      BY <2>4, <3>2 DEF Good, Books
  <2>6. Done(y) \subseteq y.selected /\ y.completed \cap y.skipped = {}
    BY <2>1, <2>2, <2>4 DEF Good, Books, Missing, Done
  <2>7. Books(y)
    BY <2>2, <2>5, <2>6 DEF Good, Books
  <2>8. /\ y.leaf = "Source" => y.running \subseteq {y.current}
        /\ y.leaf # "Source" => Off(y) /\ y.units = 0
    BY <2>2 DEF Good, Off
  <2> QED
    BY <2>3, <2>7, <2>8, AdvanceGood
<1>2. CASE ~(x.leaf \in {"Source", "Error"} /\ session = x.session)
  BY <1>2 DEF Skip
<1> QED
  BY <1>1, <1>2

\* A context without a session, and with nothing that runs.
LEMMA EmptyGood ==
  ASSUME NEW z \in Contexts, z.leaf = "Idle", z.completed = {}, z.skipped = {}, z.selected = {},
         z.records = << >>, z.units = 0, Off(z)
  PROVE  Good(z)
<1>1. Kept(z.records, z.completed)
  BY EmptySeq, FS_EmptySet DEF Kept
<1>2. Books(z)
  BY <1>1 DEF Books, Done, Missing
<1> QED
  BY <1>2 DEF Good

LEMMA IdleIsContext == Idle \in Contexts
<1>1. 0 \in 0..(2 * Target) /\ 0 \in 0..MaxSessions
  BY EntropyAssumption
<1>2. << >> \in Seq(Record)
  BY EmptySeq
<1> QED
  BY <1>1, <1>2 DEF Idle, Contexts, Leaves

LEMMA IdleGood ==
  ASSUME NEW session \in 0..MaxSessions, NEW running, running = {}, NEW request \in BOOLEAN
  PROVE  Good([Idle EXCEPT !.session = session, !.running = running, !.request = request])
<1> DEFINE z == [Idle EXCEPT !.session = session, !.running = running, !.request = request]
<1>1. z \in Contexts
  BY IdleIsContext DEF Contexts
<1>2. /\ z.leaf = "Idle" /\ z.completed = {} /\ z.skipped = {} /\ z.selected = {}
      /\ z.records = << >> /\ z.units = 0 /\ z.running = {} /\ z.hashing = FALSE
  BY DEF Idle
<1> HIDE DEF z
<1>3. Good(z)
  BY <1>1, <1>2, EmptyGood DEF Off
<1> QED
  BY <1>3 DEF z

LEMMA CancelGood ==
  ASSUME NEW x, Good(x), NEW session
  PROVE  Good(Cancel(x, session))
<1>1. CASE x.leaf # "Idle" /\ session = x.session
  <2>1. /\ x \in Contexts
        /\ x.leaf = "Source" => x.running \subseteq {x.current}
        /\ x.leaf # "Source" => Off(x) /\ x.units = 0
    BY DEF Good, Books
  <2>2. Left(x).running = {}
    BY <2>1, LeftIsOff DEF Off
  <2>3. x.session \in 0..MaxSessions /\ x.request \in BOOLEAN
    BY <2>1 DEF Contexts
  <2>4. Good([Idle EXCEPT !.session = x.session, !.running = Left(x).running, !.request = x.request])
    BY <2>2, <2>3, IdleGood
  <2> QED
    BY <1>1, <2>4 DEF Cancel
<1>2. CASE ~(x.leaf # "Idle" /\ session = x.session)
  BY <1>2 DEF Cancel
<1> QED
  BY <1>1, <1>2

LEMMA StartGood ==
  ASSUME NEW x, Good(x), x.session < MaxSessions, NEW chosen \in SUBSET Sources,
         NEW z \in Start(x, chosen)
  PROVE  Good(z)
<1> DEFINE y == [x EXCEPT !.session = @ + 1, !.selected = chosen]
<1>1. x \in Contexts /\ x.leaf = "Idle" /\ z \in Advance(y)
  BY DEF Start, Good, Books
<1>2. x.session + 1 \in 0..MaxSessions
  BY <1>1, EntropyAssumption DEF Contexts
<1>3. /\ y \in Contexts /\ y.leaf = "Idle" /\ y.completed = {} /\ y.skipped = {}
      /\ y.records = x.records /\ y.running = x.running /\ y.hashing = x.hashing
      /\ y.units = x.units
  BY <1>1, <1>2 DEF Contexts, Good
<1> HIDE DEF y
<1>4. Books(y)
  BY <1>1, <1>3 DEF Good, Books, Done
<1>5. Off(y) /\ y.units = 0
  BY <1>1, <1>3 DEF Good, Off
<1> QED
  BY <1>1, <1>3, <1>4, <1>5, AdvanceGood

-----------------------------------------------------------------------------
(* The inductive invariant.                                                *)

LEMMA InitInv == Init => IInv
<1> SUFFICES ASSUME Init PROVE IInv
  OBVIOUS
<1>2. 0 \in 0..MaxSessions
  BY EntropyAssumption
<1>3. Good(Idle)
  <2>1. /\ Idle.leaf = "Idle" /\ Idle.completed = {} /\ Idle.skipped = {} /\ Idle.selected = {}
        /\ Idle.records = << >> /\ Idle.units = 0 /\ Off(Idle)
    BY DEF Idle, Off
  <2> QED
    BY <2>1, IdleIsContext, EmptyGood
<1> QED
  BY <1>2, <1>3 DEF Init, IInv, Threads

\* A feed, for the actions.
LEMMA FedGood ==
  ASSUME Good(c), NEW session, NEW s, NEW n \in 1..Target,
         \E o \in Feed(c, session, s, n) : c' = o.ctx
  PROVE  Good(c')
BY FeedGood

LEMMA UserInv ==
  ASSUME IInv, User
  PROVE  IInv'
<1> USE DEF IInv, Threads, camVars
<1>1. ASSUME NEW chosen \in SUBSET Sources, BeginSession(chosen)
      PROVE  IInv'
  <2>1. Good(c')
    BY <1>1, StartGood DEF BeginSession
  <2>2. c'.session \in 0..MaxSessions
    BY <2>1 DEF Good, Books, Contexts
  <2> QED
    BY <1>1, <2>1, <2>2 DEF BeginSession
<1>2. CASE TouchFeed
  <2>1. Good(c')
    <3>1. 1 \in 1..Target
      BY EntropyAssumption
    <3> QED
      BY <1>2, <3>1, FedGood DEF TouchFeed
  <2> QED
    BY <1>2, <2>1 DEF TouchFeed
<1>3. CASE RetryClicked
  BY <1>3, RetryGood DEF RetryClicked
<1>4. CASE SkipClicked
  BY <1>4, SkipGood DEF SkipClicked
<1>5. CASE Leave
  <2>1. 0 \in 0..MaxSessions
    BY EntropyAssumption
  <2> QED
    BY <1>5, <2>1, CancelGood DEF Leave
<1> QED
  BY <1>1, <1>2, <1>3, <1>4, <1>5 DEF User

LEMMA SensorInv ==
  ASSUME IInv, NEW s \in Sensors, SensorThread(s)
  PROVE  IInv'
<1> USE DEF IInv, Threads, camVars
<1>1. 0 \in 0..MaxSessions
  BY EntropyAssumption
<1>2. CASE Snapshot(s)
  <2>1. c.session \in 0..MaxSessions
    BY DEF Good, Books, Contexts
  <2> QED
    BY <1>2, <2>1 DEF Snapshot
<1>3. CASE SensorFeed(s)
  <2>1. Good(c')
    BY <1>3, FedGood DEF SensorFeed
  <2> QED
    BY <1>1, <1>3, <2>1 DEF SensorFeed
<1>4. CASE SensorFail(s)
  <2>1. Good(c')
    BY <1>4, FailGood DEF SensorFail
  <2> QED
    BY <1>1, <1>4, <2>1 DEF SensorFail
<1> QED
  BY <1>2, <1>3, <1>4 DEF SensorThread

LEMMA CameraInv ==
  ASSUME IInv, CameraThread
  PROVE  IInv'
<1> USE DEF IInv, Threads, camVars, CamGoto
<1>1. CASE CamRequest
  <2>1. c \in Contexts
    BY DEF Good, Books
  <2>2. Good([c EXCEPT !.request = FALSE])
    <3> DEFINE z == [c EXCEPT !.request = FALSE]
    <3>1. /\ z \in Contexts /\ z.leaf = c.leaf /\ z.session = c.session /\ z.selected = c.selected
          /\ z.completed = c.completed /\ z.skipped = c.skipped /\ z.current = c.current
          /\ z.units = c.units /\ z.hashing = c.hashing /\ z.records = c.records
          /\ z.running = c.running
      BY <2>1 DEF Contexts
    <3> HIDE DEF z
    <3>2. Missing(z) = Missing(c) /\ Done(z) = Done(c)
      BY <3>1 DEF Missing, Done
    <3>3. Good(z)
      BY <3>1, <3>2 DEF Good, Books, AtSource, Off
    <3> QED
      BY <3>3 DEF z
  <2>3. c.session \in 0..MaxSessions
    BY <2>1 DEF Contexts
  <2> QED
    BY <1>1, <2>2, <2>3 DEF CamRequest
<1>2. CASE CamOpen
  BY <1>2 DEF CamOpen
<1>3. CASE CamFrame
  BY <1>3 DEF CamFrame
<1>4. CASE CamFrameFails
  BY <1>4 DEF CamFrameFails
<1>5. CASE CamFeed
  <2>1. Good(c')
    <3>1. 1 \in 1..Target
      BY EntropyAssumption
    <3> QED
      BY <1>5, <3>1, FedGood DEF CamFeed
  <2> QED
    BY <1>5, <2>1 DEF CamFeed
<1>6. CASE CamTooEarly
  BY <1>6 DEF CamTooEarly
<1>7. CASE CamRelease
  BY <1>7 DEF CamRelease
<1>8. CASE CamStop
  BY <1>8 DEF CamStop
<1>9. CASE CamFail
  <2>1. Good(c')
    BY <1>9, FailGood DEF CamFail
  <2> QED
    BY <1>9, <2>1 DEF CamFail
<1> QED
  BY <1>1, <1>2, <1>3, <1>4, <1>5, <1>6, <1>7, <1>8, <1>9 DEF CameraThread

LEMMA NextInv == IInv /\ [Next]_vars => IInv'
<1> SUFFICES ASSUME IInv, [Next]_vars PROVE IInv'
  OBVIOUS
<1>1. CASE User
  BY <1>1, UserInv
<1>2. ASSUME NEW s \in Sensors, SensorThread(s) PROVE IInv'
  BY <1>2, SensorInv
<1>3. CASE CameraThread
  BY <1>3, CameraInv
<1>4. CASE UNCHANGED vars
  BY <1>4 DEF vars, camVars, IInv, Threads
<1> QED
  BY <1>1, <1>2, <1>3, <1>4 DEF Next

LEMMA Invariant == Spec => []IInv
BY InitInv, NextInv, PTL DEF Spec

-----------------------------------------------------------------------------
\* A transcript that can be read is one that the Rust core accepts, for any target, any number of
\* sessions and any selection (entropy.c:345-376, 690-720).
THEOREM TranscriptIsCanonical == Spec => []TranscriptCanonical
<1>1. IInv => TranscriptCanonical
  <2> SUFFICES ASSUME IInv PROVE TranscriptCanonical
    OBVIOUS
  <2>1. c \in Contexts /\ Kept(c.records, c.completed)
    BY DEF IInv, Good, Books
  <2>2. c.units \in 0..Target
    BY <2>1, EntropyAssumption DEF IInv, Good, Contexts
  <2>3. TypeOK
    <3>1. /\ c.leaf \in Leaves /\ c.session \in 0..MaxSessions
          /\ c.current \in Sources \cup {NoSource} /\ c.hashing \in BOOLEAN /\ c.request \in BOOLEAN
          /\ c.records \in Seq(Record)
          /\ {c.selected, c.completed, c.skipped, c.running} \subseteq SUBSET Sources
      BY <2>1 DEF Contexts
    <3> QED
      BY <2>1, <2>2, <3>1 DEF IInv, Threads, TypeOK, Kept, Record, Leaves
  <2>4. ASSUME c.leaf = "Ready" PROVE Done(c) = c.selected
    BY <2>4 DEF IInv, Good, Books, Missing, Done
  <2>5. Len(c.records) \in Nat /\ DOMAIN c.records = 1..Len(c.records)
    BY <2>1, LenProperties DEF Contexts
  <2>6. \A i \in 1..(Len(c.records) - 1) : c.records[i].source < c.records[i + 1].source
    <3> TAKE i \in 1..(Len(c.records) - 1)
    <3>1. i \in 1..Len(c.records) /\ i + 1 \in 1..Len(c.records) /\ i < i + 1
      BY <2>5
    <3> QED
      BY <2>1, <3>1 DEF Kept
  <2>7. {c.records[i].source : i \in DOMAIN c.records} = c.completed
    BY <2>1, <2>5 DEF Kept
  <2>8. \A i \in DOMAIN c.records : c.records[i].units >= Target
    BY <2>1, <2>5 DEF Kept
  <2> QED
    BY <2>3, <2>4, <2>6, <2>7, <2>8 DEF TranscriptCanonical, IInv, Good, Books, Done
<1> QED
  BY <1>1, Invariant, PTL

\* No sensor runs and no hash is open for a source that failed, was skipped or was cancelled
\* (entropy.c:285-303).
THEOREM NothingElseRuns == Spec => []OnlyCurrentRuns
<1>1. IInv => OnlyCurrentRuns
  <2> SUFFICES ASSUME IInv PROVE OnlyCurrentRuns
    OBVIOUS
  <2>1. CASE c.leaf = "Source"
    BY <2>1 DEF IInv, Good, OnlyCurrentRuns
  <2>2. CASE c.leaf # "Source"
    BY <2>2 DEF IInv, Good, Off, OnlyCurrentRuns
  <2> QED
    BY <2>1, <2>2
<1> QED
  BY <1>1, Invariant, PTL
=============================================================================
