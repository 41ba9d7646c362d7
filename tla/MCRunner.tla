------------------------------ MODULE MCRunner ------------------------------
(***************************************************************************)
(* Command lines and names for Runner.  The second name contains the first *)
(* one, as goroutine_start_batch contains goroutine_start.                 *)
(***************************************************************************)
EXTENDS Runner

Some == <<<<"start">>, <<"start", "batch">>, <<"yield">>>>
TooMany == Some \o <<<<"pair">>, <<"handoff">>>>

MCNameLists == {Some, TooMany}

\* One body gives up with exit(1), another that comes behind it with either.
MCEndings == [p \in Names |-> CASE p = <<"start", "batch">> -> {1}
                               [] p = <<"yield">>          -> {1, Killed}
                               [] OTHER                    -> {}]

\* A word that is no option and no number matches no name.
Nothing == [exact |-> FALSE, parts |-> <<"nothing">>]

Option(o)       == [option |-> o, num |-> 0, filter |-> Nothing]
Number(k)       == [option |-> "word", num |-> k, filter |-> Nothing]
Filter(e, p)    == [option |-> "word", num |-> 0, filter |-> [exact |-> e, parts |-> p]]

FilterWords == {Filter(e, p) : e \in BOOLEAN, p \in {<<>>, <<"start">>, <<"batch">>}}

MCArgvs ==
  {<<>>, <<Option("-list")>>, <<Option("-tsv"), Option("-count")>>,
   <<Option("-run"), Option("-list")>>, <<Number(1)>>,
   <<Option("-n"), Number(7), Option("-count"), Number(2)>>,
   <<Option("-time"), Number(9), Option("-count"), Number(9), Option("-run"), Filter(TRUE, <<"start">>)>>}
  \cup {<<Option("-run"), f, Option("-tsv")>> : f \in FilterWords}
  \cup {<<Option("-count"), Number(c), Option("-run"), f>> :
          c \in {0, 2}, f \in {Filter(TRUE, <<"yield">>), Filter(FALSE, <<"start">>)}}
=============================================================================
