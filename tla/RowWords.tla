------------------------------ MODULE RowWords ------------------------------
(***************************************************************************)
(* The same reading of a row for the state that its operation is to meet:   *)
(* the words that a loop takes from one value to another and that only the  *)
(* body writes, iteration after iteration and call after call; the word of  *)
(* a compare-and-swap, which keeps pace with the iterations; and a channel  *)
(* that nobody ever sends on.                                               *)
(***************************************************************************)
EXTENDS RowMemory

(* The words in question, and the body at a position with what they hold.    *)
Watched(code) ==
  {InstrAt(code, s.at).f :
     s \in {t \in Stands(code) : t.at # Off /\ InstrAt(code, t.at).op = "shift"}}

View(at, words) == [at |-> at, words |-> words]

(* A note is cleared when it is made, and a refused make may not get so far. *)
Written(i, made, words) ==
  [f \in DOMAIN words |-> IF i.op \in {"store", "shift"} /\ i.f = f THEN i.v
                          ELSE IF f \in made THEN 0 ELSE words[f]]
Writes(i, words) ==
  {Written(i, made, words) : made \in IF i.op = "make" THEN SUBSET Range(i.rs) ELSE {{}}}

Views(code, v) ==
  IF v.at = Off THEN {View(FirstOf(code, Setup), v.words)}
  ELSE {View(at, words) : at \in Goes(code, v.at), words \in Writes(InstrAt(code, v.at), v.words)}

Unwritten(code) == View(Off, [f \in Watched(code) |-> 0])

Sights(code) ==
  LET reach[k \in Nat] ==
        IF k = 0 THEN [all |-> {Unwritten(code)}, new |-> {Unwritten(code)}]
        ELSE LET before == reach[k - 1]
                 new == UNION {Views(code, v) : v \in before.new} \ before.all
             IN  [all |-> before.all \cup new, new |-> new]
  IN reach[4 * (Size(code) + 1)].all

FindsItsWords(code) ==
  /\ Watched(code) \subseteq Flags
  /\ Unwritten(code) \in Sights(code)
  /\ \A v \in Sights(code) :
       /\ Views(code, v) \subseteq Sights(code)
       /\ v.at # Off =>
            LET i == InstrAt(code, v.at)
            IN  /\ i.op \in {"store", "shift"} \/ \A f \in Watched(code) : SparesWord(i, f)
                /\ i.op = "shift" => v.words[i.f] = i.from

KidSparesWords(code, W) ==
  \A s \in Stands(code) : s.at # Off =>
    LET i == InstrAt(code, s.at)
    IN  /\ \A f \in W : SparesWord(i, f)
        /\ i.op \notin {"make", "shift", "cas"}
        /\ i.op = "select" => i.expect = ""

(* A body that clears the word f and then takes it from i to i + 1.          *)
Paced(code, f) ==
  /\ FirstOf(code, Setup) = <<Setup, 1>> /\ Len(code[Loop]) = 1
  /\ \A s \in Stands(code) : s.at # Off =>
       LET i == InstrAt(code, s.at)
       IN  \/ s.at = <<Setup, 1>> /\ i.op = "store" /\ i.f = f /\ i.v = 0
           \/ s.at = <<Loop, 1>> /\ i.op = "cas" /\ i.f = f

(* A body that only ever receives. *)
NeverSends(code) ==
  \A s \in Stands(code) : s.at # Off =>
    LET i == InstrAt(code, s.at)
    IN  /\ i.op # "sendnext"
        /\ i.op = "select" => i.alts \in Seq({"recv"} \X Chans)

Expects(code, op) == \E s \in Stands(code) : s.at # Off /\ InstrAt(code, s.at).op = op

(* All but the row whose channel is to have somebody waiting.                *)
FindsItsState(r) ==
  /\ FindsItsWords(Body(r)) /\ KidSparesWords(Kid(r), Watched(Body(r)))
  /\ Expects(Body(r), "cas") => NobodyElse(r) /\ \E f \in Flags : Paced(Body(r), f)
  /\ (\E s \in Stands(Body(r)) : s.at # Off /\ LET i == InstrAt(Body(r), s.at)
                                               IN  i.op = "select" /\ i.expect # "")
       => /\ NobodyElse(r) /\ NeverSends(Body(r)) /\ SharesSafely(r)
          /\ \A s \in Stands(Body(r)) : s.at # Off =>
               LET i == InstrAt(Body(r), s.at) IN i.op = "select" => i.expect # "ready"

----------------------------------------------------------------------------
(* The inductive invariants: the words are what reading the row says, the    *)
(* word of a compare-and-swap is the iteration, and nothing is in a channel. *)
WordsInv ==
  FindsItsState(row) /\ ~aborted =>
    \E v \in Sights(Body(row)) :
      v.at = pc["main"] /\ v.words = [f \in Watched(Body(row)) |-> flag[f]]

PaceInv ==
  NobodyElse(row) => \A f \in Flags : Paced(Body(row), f) =>
    /\ pc["main"] = <<Setup, 1>> => iter["main"] = 0
    /\ pc["main"] = <<Loop, 1>>  => flag[f] = iter["main"]

EmptyInv ==
  NobodyElse(row) /\ NeverSends(Body(row)) /\ SharesSafely(row) =>
    count = [c \in Chans |-> 0]
=============================================================================
