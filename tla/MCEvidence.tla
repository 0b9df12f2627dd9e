----------------------------- MODULE MCEvidence -----------------------------
(* Instances of Evidence for TLC: the outputs handed in. *)
EXTENDS Evidence

Item(type, passed, sound) == [type |-> type, passed |-> passed, sound |-> sound]

Result(passed) == Item("test_result", passed, TRUE)

\* A change, a test run of one or two results, an output of two kinds, one the
\* call does not take, and a result that is refused after one that is not.
MCOutputs ==
  { [team |-> s[1], task |-> s[2], items |-> s[3]] : s \in
    { <<"silver", "t1", <<Item("change", TRUE, TRUE)>> >>,
      <<"yellow", "t1", <<Result(TRUE)>> >>,
      <<"yellow", "t1", <<Result(FALSE), Result(TRUE)>> >>,
      <<"yellow", "t2", <<Result(TRUE), Item("test_result", FALSE, FALSE)>> >>,
      <<"blue", "t2", <<Item("alert", TRUE, TRUE), Item("other", TRUE, TRUE)>> >> } }

\* A test run reported before it has ended.
MCDrafts == {<<"t1", "test_result">>}
=============================================================================
