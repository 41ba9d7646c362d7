----------------------------- MODULE RowMemory -----------------------------
(***************************************************************************)
(* The same reading of a row for its memory: what is allocated at each      *)
(* instruction of the body, call after call.  What a body starts does not   *)
(* allocate or free, so the body alone decides what is live.  Only the row  *)
(* whose pool grows with b->n is read in another way.                       *)
(***************************************************************************)
EXTENDS RowPaths

PoolOps == {"boxget", "retire", "drain", "freepool"}

(* An instruction that never writes the word f. *)
SparesWord(i, f) ==
  /\ i.op \in {"store", "add", "shift", "cas"} => i.f # f
  /\ i.op = "load" => i.local # f
  /\ i.op \in PoolOps => f \notin {"pool", "retired"}

InSetup(at, k) == at[1] = Setup /\ at[2] = k

(* A word of farewell: the body clears it at the place j of its setup, before *)
(* it starts one other at the place k, and the very last that this one does   *)
(* is to add to the word.                                                    *)
FarewellAt(r, f, j, k) ==
  /\ j \in Nat \ {0} /\ k \in Nat /\ j < k /\ f \in Flags \ Pointers
  /\ r.setup[j].op = "store" /\ r.setup[j].f = f /\ r.setup[j].v = 0
  /\ \A s \in Stands(Body(r)) : s.at # Off =>
       LET i == InstrAt(Body(r), s.at)
       IN  /\ i.op = "go" => InSetup(s.at, k)
           /\ InSetup(s.at, j) \/ SparesWord(i, f)
           /\ \A at \in Goes(Body(r), s.at) :
                at[1] = Setup => s.at[1] = Setup /\ at[2] = s.at[2] + 1
  /\ \A s \in Stands(Kid(r)) : s.at # Off =>
       LET i == InstrAt(Kid(r), s.at)
       IN  /\ i.op # "go"
           /\ SparesWord(i, f) \/ (i.op = "add" /\ Goes(Kid(r), s.at) = {Off})

Farewell(r, f) == \E j, k \in DOMAIN r.setup : FarewellAt(r, f, j, k)

(* The ways on from an instruction i of the body, where l is live: how, what  *)
(* is live then, whether something has failed, and whether any of the others  *)
(* run: "none", "some", or the "same" as before.                              *)
Way(how, l, fails, others) == [how |-> how, live |-> l, failed |-> fails, others |-> others]

MakeWays(i, l, fails) ==
  {Way("next", Given(l, Range(i.rs)), fails, "same")} \cup
  IF i.onfail \in {"never", "abort"} THEN {}
  ELSE {Way(i.onfail, Refused(l, i, made), TRUE, "same") : made \in SomeOf(i)}

GoWays(i, l, fails) ==
  {Way("next", l, fails, "some")} \cup
  IF i.onfail = "never" THEN {} ELSE {Way(i.onfail, Released(l, i.drop), TRUE, "same")}

(* odd is the parity of the iteration: RESET_EVERY is 2.                      *)
Ways(i, l, fails, odd) ==
  CASE i.op = "make"   -> MakeWays(i, l, fails)
    [] i.op = "go"     -> GoWays(i, l, fails)
    [] i.op = "once"   -> {Way("next", [l EXCEPT ![i.r] = 1], fails, "same")}
    [] i.op = "reset"  -> {Way("next", IF i.every = 2 /\ odd THEN l ELSE Emptied(l, {i.r}),
                               fails, "same")}
    [] i.op = "free"   -> {Way("next", Emptied(Released(l, i.rs), i.rs), fails, "same")}
    [] i.op = "try"    -> {Way("next", l, f, "same") : f \in {fails, TRUE}}
    [] i.op = "verify" -> IF fails THEN {} ELSE {Way("next", l, fails, "same")}
    [] i.op \in {"join", "shutdown"} -> {Way("next", l, fails, "none")}
    [] OTHER           -> {Way(how, l, fails, "same") : how \in Hows(i)}

(* The body at a position, with what is live, whether something has failed,   *)
(* the parity of the iteration, and whether nobody else can be running.       *)
Account(at, l, fails, odd, alone) ==
  [at |-> at, live |-> l, failed |-> fails, odd |-> odd, alone |-> alone]

Turns(code, at, how, odd) ==
  IF how = "next" /\ at = <<Loop, Len(code[Loop])>> THEN ~odd ELSE odd

(* The body knows that nobody else runs when it has waited for all of them,   *)
(* or for the word of a farewell.                                            *)
Parting(r, i) == i.op = "await" /\ i.v # 0 /\ Farewell(r, i.f)

Leads(r, m, w) ==
  LET code  == Body(r)
      alone == \/ w.others = "none"
               \/ w.others = "same" /\ (m.alone \/ Parting(r, InstrAt(code, m.at)))
  IN {Account(at, w.live, w.failed, Turns(code, m.at, w.how, m.odd), alone)
        : at \in GoesBy(code, m.at, w.how)}

(* The harness calls a body that has returned once more. *)
Onward(r, m) ==
  IF m.at = Off THEN {Account(FirstOf(Body(r), Setup), Kept(m.live), FALSE, FALSE, TRUE)}
  ELSE UNION {Leads(r, m, w) : w \in Ways(InstrAt(Body(r), m.at), m.live, m.failed, m.odd)}

Opening == Account(Off, [r \in Pointers |-> 0], FALSE, FALSE, TRUE)

Accounts(r) ==
  LET reach[k \in Nat] ==
        IF k = 0 THEN [all |-> {Opening}, new |-> {Opening}]
        ELSE LET before == reach[k - 1]
                 new == UNION {Onward(r, m) : m \in before.new} \ before.all
             IN  [all |-> before.all \cup new, new |-> new]
  IN reach[4 * (Size(Body(r)) + 1)].all

(* What the body alone does, in an order that does not depend on b->n. *)
MemoryOps == PoolOps \cup {"make", "once", "reset", "free", "try", "verify", "go"}

AccountsClosed(r, S) ==
  /\ Opening \in S
  /\ \A m \in S :
       /\ Onward(r, m) \subseteq S
       /\ m.at # Off => LET i == InstrAt(Body(r), m.at) IN
                        /\ i.op \notin PoolOps
                        /\ i.op = "reset" => i.every \in {1, 2}

KidSparesMemory(code) ==
  \A s \in Stands(code) : s.at # Off => InstrAt(code, s.at).op \notin MemoryOps

(* Nothing is used that is not live, nothing is lost while it is live, and a  *)
(* body that met no failure has freed what it had.                            *)
UsesAndFrees(r, S) ==
  \A m \in S :
    /\ m.live \in [Pointers -> 0..r.most]
    /\ IF m.at = Off
       THEN ~m.failed => \A x \in Pointers \ (Statics \cup KnownLeaks) : m.live[x] = 0
       ELSE \A x \in InstrAt(Body(r), m.at).uses : m.live[x] > 0

MemoryReadsWell(r) ==
  LET S == Accounts(r) IN
  AccountsClosed(r, S) /\ UsesAndFrees(r, S) /\ KidSparesMemory(Kid(r))

(* No goroutine of the row ever has anything to do. *)
NobodyElse(r) == \A s \in Stands(Kid(r)) : s.at = Off

(* The row with a pool: a box is taken and retired in every iteration, and    *)
(* the body ends with the drain and the loop that frees the pool.            *)
PoolReadsWell(r) ==
  LET code == Body(r) IN
  /\ NobodyElse(r) /\ ~r.endless /\ Len(code[Loop]) = 2
  /\ FirstOf(code, Setup)[1] = Setup
  /\ \A s \in Stands(code) : s.at # Off =>
       LET i == InstrAt(code, s.at) IN
       /\ i.op \in PoolOps \cup {"pause", "resume", "shutdown"}
       /\ i.op = "boxget" <=> s.at = <<Loop, 1>>
       /\ i.op = "retire" <=> s.at = <<Loop, 2>>
       /\ i.uses \subseteq IF i.op = "retire" THEN {"box"} ELSE {}
       /\ \A at \in Goes(code, s.at) :
            /\ at = <<Loop, 2>> => i.op = "boxget"
            /\ at = Off => i.op = "freepool"
            /\ at # Off /\ InstrAt(code, at).op = "freepool" => i.op = "drain"

ASSUME MemoryAssumption ==
  \A k \in DOMAIN Table :
    IF Table[k].most = 0 THEN PoolReadsWell(Table[k]) ELSE MemoryReadsWell(Table[k])

----------------------------------------------------------------------------
(* Rows whose body waits for what it started, or ends the runtime, before it  *)
(* returns: all but mcontext_switch, whose coroutine ends by a last switch.   *)
EndsAlone(r) == \A m \in Accounts(r) : m.at = Off => m.alone

(* Nobody there closes a channel, and these are the channels it works on.     *)
LeavesOpen(code) ==
  \A s \in Stands(code) : s.at # Off =>
    LET i == InstrAt(code, s.at)
    IN  /\ i.op # "close"
        /\ i.op = "select" => i.alts \in Seq({"send", "recv"} \X Chans)
        /\ i.op = "sendnext" => i.cs \in Seq(Chans) \ {<<>>}

(* Rows where all that the others use is live as long as one of them may run, *)
(* and whose channels stay open: the rest count on the order of a handshake.  *)
SharesSafely(r) ==
  /\ \A m \in Accounts(r), s \in Stands(Kid(r)) :
       ~m.alone /\ s.at # Off => \A x \in InstrAt(Kid(r), s.at).uses : m.live[x] > 0
  /\ LeavesOpen(Body(r)) /\ LeavesOpen(Kid(r))

(* Before it says farewell, there is one other at most, and the body has not  *)
(* heard of it.                                                              *)
FarewellInv ==
  \A f \in Flags : \A j, k \in DOMAIN row.setup : FarewellAt(row, f, j, k) =>
    /\ \A q1, q2 \in Range(Kids) : pc[q1] # Off /\ pc[q2] # Off => q1 = q2
    /\ \A q \in Range(Kids) : pc[q] # Off => flag[f] = 0
    /\ pc["main"] # Off /\ pc["main"][1] = Setup /\ pc["main"][2] <= k =>
         /\ \A q \in Range(Kids) : pc[q] = Off
         /\ pc["main"][2] > j => flag[f] = 0

(* The inductive invariant: what is live is what reading the row says.        *)
Accounted ==
  row.most # 0 =>
    \E m \in Accounts(row) :
      /\ m.live = live
      /\ ~aborted => /\ m.at = pc["main"]
                     /\ m.failed = failed
                     /\ m.odd = (iter["main"] % 2 = 1)
                     /\ m.alone => \A q \in Range(Kids) : pc[q] = Off

MemoryInv ==
  /\ iter["main"] \in Nat
  /\ aborted => \A p \in Procs : pc[p] = Off
  /\ Accounted

(* In the pool and out of it: every box that is live is in the pool, retired  *)
(* or in the hand of the body, and there was an iteration for each of them.  *)
InHand == IF pc["main"] = <<Loop, 2>> THEN 1 ELSE 0

PoolInv ==
  row.most = 0 =>
    /\ flag["pool"] \in Nat /\ flag["retired"] \in Nat
    /\ DOMAIN live = Pointers
    /\ \A x \in Pointers : live[x] = IF x = "box" THEN flag["pool"] + flag["retired"] + InHand ELSE 0
    /\ IF pc["main"] = Off
       THEN flag["pool"] = 0 /\ flag["retired"] = 0
       ELSE /\ flag["pool"] + flag["retired"] <= iter["main"]
            /\ Instr("main").op = "freepool" => flag["retired"] = 0

(* And of the rows that share safely, that every channel is open.             *)
OpenInv == SharesSafely(row) => got \in Nat /\ closed = [c \in Chans |-> FALSE]
=============================================================================
