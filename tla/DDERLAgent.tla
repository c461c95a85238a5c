----------------------------- MODULE DDERLAgent -----------------------------
(***************************************************************************)
(* The reinforcement-learning agent of a wireless client: its Q-matrix,    *)
(* the update of the entry of the previous decision, the random choice of  *)
(* the next one and the correction of a choice the policy forbids.  A      *)
(* Q-value is kept as minus infinity or finite: that is what the choice    *)
(* between certain and random depends on.                                  *)
(***************************************************************************)

CONSTANTS
  NsClasses,   \* the fuzzy states used: a subset of {"BAD","REGULAR","GOOD","EXCELLENT"}
  PureStates   \* the states of pure Q-learning used: records [ss, loss, users]

ASSUME NsClassesAssumption ==
  "BAD" \in NsClasses /\ NsClasses \subseteq {"BAD", "REGULAR", "GOOD", "EXCELLENT"}

ASSUME PureStatesAssumption ==
  PureStates \subseteq [ss : {"BAD_SIGNAL", "GOOD_SIGNAL"},
                        loss : {"LOW_LOSS", "MEDIUM_LOSS", "HIGH_LOSS"},
                        users : {"LOW", "MEDIUM", "HIGH"}]

\* An entry of the Q-matrix: the own state, the state of the best other
\* access point and the action.
TransferInfo == [own : NsClasses, best : NsClasses, changeAP : BOOLEAN]
PureTransferInfo == [own : PureStates, best : PureStates, changeAP : BOOLEAN]

\* The initial policy: an entry that starts at minus infinity is a forbidden change.
Forbidden(e) == e.changeAP /\ (e.own # "BAD" \/ e.best = "BAD")

PureForbidden(e) ==
  /\ e.changeAP
  /\ \/ e.best.ss = "BAD_SIGNAL"
     \/ e.best.loss = "HIGH_LOSS"
     \/ e.own.loss = "LOW_LOSS"
     \/ e.own = e.best

InitialAgent ==
  [started |-> FALSE, last |-> [own |-> "BAD", best |-> "BAD", changeAP |-> FALSE],
   q |-> [e \in TransferInfo |-> IF Forbidden(e) THEN "minusInfinity" ELSE "finite"]]

InitialPureAgent ==
  [started |-> FALSE,
   last |-> [own |-> CHOOSE s \in PureStates : TRUE, best |-> CHOOSE s \in PureStates : TRUE,
             changeAP |-> FALSE],
   q |-> [e \in PureTransferInfo |-> IF PureForbidden(e) THEN "minusInfinity" ELSE "finite"]]

\* The larger of the two Q-values of a state.
MaxFuture(q, own, best) ==
  IF \E c \in BOOLEAN : q[[own |-> own, best |-> best, changeAP |-> c]] = "finite"
  THEN "finite" ELSE "minusInfinity"

\* (1-alpha) * Q + alpha * (reward + gamma * maxFuture), for 0 < alpha < 1 and 0 < gamma.
Updated(old, reward, future) ==
  IF "minusInfinity" \in {old, reward, future} THEN "minusInfinity" ELSE "finite"

\* The Q-matrix after the reward of the previous decision; the first call
\* has none.  The entry that is updated is the remembered one.
Learned(agent, entry, own, best, reward) ==
  IF agent.started
  THEN [agent.q EXCEPT ![entry] = Updated(@, reward, MaxFuture(agent.q, own, best))]
  ELSE agent.q

\* What selectAction may return: the softmax of one infinite and one finite
\* value leaves no choice, of two finite values any.
SelectAction(stay, change) ==
  IF change = "minusInfinity" THEN {FALSE} ELSE IF stay = "minusInfinity" THEN {TRUE} ELSE BOOLEAN

\* The choice between the two entries of a state; two infinite values stay.
Selectable(q, own, best) ==
  SelectAction(q[[own |-> own, best |-> best, changeAP |-> FALSE]],
               q[[own |-> own, best |-> best, changeAP |-> TRUE]])

\* A change is made only from a BAD to a better access point, without a lock.
Corrected(choice, own, best, lock) ==
  choice /\ own = "BAD" /\ best # "BAD" /\ ~lock

\* The agents after one call, one for each action it may select.
GiveFeedback(agent, own, best, reward, lock) ==
  LET q == Learned(agent, agent.last, own, best, reward)
  IN  {[started |-> TRUE, q |-> q,
        last |-> [own |-> own, best |-> best, changeAP |-> Corrected(c, own, best, lock)]] :
         c \in Selectable(q, own, best)}

\* The choice of pure Q-learning, which only a bad signal of the other access
\* point overrules.
PureAction(q, own, best) ==
  {c /\ best.ss # "BAD_SIGNAL" : c \in Selectable(q, own, best)}

\* The same for pure Q-learning: the best state of the new observation
\* replaces that of the remembered entry before the update.
GivePureFeedback(agent, own, best, reward) ==
  LET q == Learned(agent, [agent.last EXCEPT !.best = best], own, best, reward)
  IN  {[started |-> TRUE, q |-> q,
        last |-> [own |-> own, best |-> best, changeAP |-> c]] : c \in PureAction(q, own, best)}
=============================================================================
