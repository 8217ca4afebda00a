------------------------------ MODULE MCLearn ------------------------------
(* Instance of Learning for TLC: two families, two sessions of earlier      *)
(* commands, and two histories the invocations start from.                  *)
EXTENDS Learning, TLC

CONSTANTS f1, f2, s1, s2

At0(kind, session, family) ==
  [kind |-> kind, session |-> session, family |-> family, day |-> 0, era |-> 0,
   late |-> FALSE]

Open(sig, family, payload, created) ==
  [sig |-> sig, family |-> family, payload |-> payload, status |-> "open",
   sightings |-> 1, unseen |-> FALSE, created |-> created]

(* s1 recalled f1, explored it in two steps and taught it; s2 misspelt and  *)
(* corrected a flag before it recalled anything, then recalled f2 and made  *)
(* a first step.                                                            *)
Explored ==
  [lines |-> <<At0("recall", s1, f1), At0("good", s1, NoFamily),
               At0("good", s1, NoFamily), At0("other", s1, NoFamily),
               At0("fail", s2, NoFamily), At0("good", s2, NoFamily),
               At0("recall", s2, f2), At0("good", s2, NoFamily)>>,
   offset |-> 8, observed |-> <<0, 0, 0, 0, 1, 0, 0, 0>>,
   candidates |-> <<Open(f1, f1, [steps |-> 2, notes |-> FALSE], 1),
                    Open(Alias, NoFamily, NoPayload, 2)>>,
   playbooks |-> <<>>, given |-> <<1, 2>>, blessed |-> <<0, 0>>]

(* In s2 f1 was recalled and a flag misspelt; the correction is to come.    *)
Midway ==
  [lines |-> <<At0("recall", s2, f1), At0("fail", s2, NoFamily)>>,
   offset |-> 0, observed |-> <<0, 0>>, candidates |-> <<>>, playbooks |-> <<>>,
   given |-> <<>>, blessed |-> <<>>]

SlotSymmetry == Permutations(Slots)
MCHistories == {Explored, Midway}
===========================================================================
