----------------------------- MODULE RowPaths -----------------------------
(***************************************************************************)
(* What can be said of a row by reading it once, from the top: where its    *)
(* processes can get to, how the clock stands there and what is borrowed.   *)
(* Nothing runs here: a loop may end or go round after any iteration, and a *)
(* call that may fail does both.  RowProofs carries what is found over *)
(* to every run of the row, whatever b->n is, however often the body is     *)
(* called and however its goroutines interleave with it.                    *)
(***************************************************************************)
EXTENDS RowMachine

(* How the code may go on behind an instruction. *)
Hows(i) ==
  {"next"} \cup
  CASE i.op = "make"   -> {i.onfail} \ {"never", "abort"}
    [] i.op = "go"     -> {i.onfail} \ {"never"}
    [] i.op = "select" -> {i.other}
    [] i.op \in {"boxget", "breakif", "breakdone"} -> {"break"}
    [] OTHER           -> {}

InstrAt(code, at) == code[at[1]][at[2]]

(* Where a process goes from there. *)
Nexts(code, at) ==
  IF at[2] < Len(code[at[1]])
  THEN {<<at[1], at[2] + 1>>}
  ELSE {FirstOf(code, at[1] + 1)} \cup (IF at[1] = Loop THEN {<<Loop, 1>>} ELSE {})

GoesBy(code, at, how) ==
  CASE how = "next"   -> Nexts(code, at)
    [] how = "break"  -> {FirstOf(code, After)}
    [] how = "return" -> {FirstOf(code, Finally)}

Goes(code, at) == UNION {GoesBy(code, at, how) : how \in Hows(InstrAt(code, at))}

(* GOMAXPROCS and the current stack, which a body may change for its time.   *)
Borrowed == {"procs", "current"}

(* A position, b->running, whether the body stopped the clock before its     *)
(* loop, and the borrowed words, 0 for what they were before the body.       *)
Stand(at, run, man, lent) == [at |-> at, running |-> run, managed |-> man, lent |-> lent]

Runs(i, run)          == i.op = "resume" \/ (run /\ i.op # "pause")
Manages(i, part, man) == man \/ (i.op = "pause" /\ part = Setup)
Lends(i, lent)        == [f \in Borrowed |-> IF i.op = "store" /\ i.f = f THEN i.v ELSE lent[f]]

Steps(code, s) ==
  LET i == InstrAt(code, s.at) IN
  {Stand(at, Runs(i, s.running), Manages(i, s.at[1], s.managed), Lends(i, s.lent))
     : at \in Goes(code, s.at)}

(* All that can be reached from the top, in as many steps as it may take. *)
Entry(code) == Stand(FirstOf(code, Setup), TRUE, FALSE, [f \in Borrowed |-> 0])
Size(code)  == Len(code[Setup]) + Len(code[Loop]) + Len(code[After]) + Len(code[Finally])

Stands(code) ==
  LET reach[k \in Nat] ==
        IF k = 0 THEN {Entry(code)}
        ELSE LET seen == reach[k - 1]
             IN  seen \cup UNION {Steps(code, s) : s \in {x \in seen : x.at # Off}}
  IN reach[2 * Size(code) + 2]

(* The parameters of an instruction are of their types. *)
WellTyped(i) ==
  /\ i.op \in {"store", "shift"} => i.v \in Nat
  /\ i.op = "load"   => i.f \in Flags
  /\ i.op = "select" => DOMAIN i.alts \subseteq Nat

(* That is all: steps lead nowhere else, never back to an earlier part and   *)
(* never past the end of one.                                                *)
Closed(code) ==
  /\ Entry(code) \in Stands(code)
  /\ \A s \in Stands(code) : s.at # Off =>
       /\ s.at[1] \in Setup..Finally
       /\ s.at[2] \in 1..Len(code[s.at[1]]) /\ s.at[2] \in DOMAIN code[s.at[1]]
       /\ WellTyped(InstrAt(code, s.at))
       /\ Hows(InstrAt(code, s.at)) \subseteq {"next", "break", "return"}
       /\ Steps(code, s) \subseteq Stands(code)
       /\ \A t \in Steps(code, s) : t.at[1] \in s.at[1]..Off[1]

(* Is the clock right for the instruction i of a part? *)
RightClock(i, part, run, man) ==
  i.op \notin {"pause", "resume"} => IF part = Loop THEN run = ~i.prep ELSE man => ~run

(* Only a store by the body itself changes a borrowed word. *)
SparesWords(i) ==
  /\ i.op \in {"add", "shift", "cas"} => i.f \notin Borrowed
  /\ i.op = "load" => i.local \notin Borrowed
  /\ i.op = "make" => i.rs \in Seq(Pointers)

BodyReadsWell(code) ==
  \A s \in Stands(code) :
    IF s.at = Off THEN s.lent = [f \in Borrowed |-> 0]
    ELSE LET i == InstrAt(code, s.at)
         IN  RightClock(i, s.at[1], s.running, s.managed) /\ SparesWords(i)

(* What a body starts leaves the clock, the runtime and those words alone. *)
KidReadsWell(code) ==
  \A s \in Stands(code) : s.at # Off =>
    LET i == InstrAt(code, s.at)
    IN  /\ i.op \notin {"pause", "resume", "shutdown"} /\ SparesWords(i)
        /\ i.op = "store" => i.f \notin Borrowed

(* All the rows of the table are so. *)
ReadsWell(r) ==
  /\ Closed(Body(r)) /\ BodyReadsWell(Body(r))
  /\ Closed(Kid(r)) /\ KidReadsWell(Kid(r))
  /\ \A c \in Chans \cap DOMAIN r.cap : r.cap[c] \in Nat

ASSUME RowAssumption == \A k \in DOMAIN Table : ReadsWell(Table[k])

----------------------------------------------------------------------------
Lent == [f \in Borrowed |-> flag[f]]

(* The inductive invariant: everyone is where reading the row says.          *)
Shapes ==
  /\ \E k \in DOMAIN Table : row = Table[k]
  /\ DOMAIN pc = Procs /\ DOMAIN iter = Procs /\ DOMAIN flag = Flags
  /\ running \in BOOLEAN /\ managed \in BOOLEAN

OnPath ==
  /\ pc["main"] # Off => Stand(pc["main"], running, managed, Lent) \in Stands(Body(row))
  /\ pc["main"] = Off /\ ~aborted => \A f \in Borrowed : flag[f] = 0
  /\ \A p \in Range(Kids) : pc[p] # Off => \E s \in Stands(Kid(row)) : s.at = pc[p]

Sleepers == parked \subseteq Procs /\ \A p \in parked : AtChan(p)

PathInv == Shapes /\ OnPath /\ Sleepers

(* With the iterations that are left: none behind the loop.                   *)
Counted ==
  /\ n \in Nat /\ iter["main"] \in Nat
  /\ ~row.endless =>
       /\ iter["main"] <= n
       /\ pc["main"] # Off /\ pc["main"][1] <= Loop => iter["main"] < n

(* The numbers that only grow or are chosen, and the rest of the types.       *)
Numbers ==
  /\ call \in 0..Calls /\ n \in Counts \cup {0}
  /\ iter \in [Procs -> Nat] /\ flag \in [Flags -> Nat]
  /\ closed \in [Chans -> BOOLEAN] /\ got \in Nat
  /\ failed \in BOOLEAN /\ aborted \in BOOLEAN
  /\ live = [x \in Pointers |-> live[x]] /\ count = [c \in Chans |-> count[c]]

(* And what is in the channels.                                              *)
ChannelInv ==
  /\ DOMAIN count = Chans
  /\ \A c \in Chans : count[c] \in 0..Cap(c)
=============================================================================
