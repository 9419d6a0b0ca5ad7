---------------------------- MODULE MCNaiveBayes ----------------------------
(***************************************************************************)
(* Two documents are drawn from none, two, four or six: too few to draw,   *)
(* none left to train with, a class that is drawn out, and more of each    *)
(* class than draws.  One feed may be longer than the other.  testingNB    *)
(* trains with four posts and tests entries with words it does not know.   *)
(* (The code draws 10 of 50, and 20 of the entries of two feeds; it        *)
(* removes 30 words.)                                                      *)
(***************************************************************************)
EXTENDS NaiveBayes

MCWords == {"a", "b", "c", "unknown"}

Texts == {<<>>, <<"a", "b">>, <<"b", "b", "c">>}

Feeds == UNION {[1 .. n -> Texts] : n \in 0 .. 2}

Mails == [1 .. 3 -> {<<"a", "b">>, <<"b", "b">>}]

MCJobs ==
  {[program |-> "localWords", ones |-> ones, zeros |-> zeros] : ones \in Feeds, zeros \in Feeds}
  \cup {[program |-> "spamTest", ones |-> ones, zeros |-> zeros] : ones \in Mails, zeros \in Mails}
  \cup {[program |-> "testingNB", ones |-> ones, zeros |-> zeros,
          entries |-> <<<<"b", "unknown">>, <<"c", "c">>>>] :
          ones \in [1 .. 2 -> Texts], zeros \in [1 .. 2 -> Texts]}

MCHoldOut == [testingNB |-> 0, spamTest |-> 2, localWords |-> 2]
=============================================================================
