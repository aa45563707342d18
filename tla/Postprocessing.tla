---------------------------- MODULE Postprocessing ----------------------------
(***************************************************************************)
(* How the grounder simplifies a ground HTN problem before writing it:     *)
(* src/grounder/src/postprocessing.cpp and duplicate.cpp.  Every operator  *)
(* takes the ground problem and returns the changed one.                   *)
(*                                                                         *)
(* A ground problem g has the tasks                                        *)
(*   [name, prim, pre, add, del, ce, none]                                 *)
(* (ce: the task was compiled from a conditional effect and is guarded by  *)
(* a fact in g.guards; none: see GroundOutput) and the methods             *)
(*   [name, task, sub, ord, seqn]                                          *)
(* numbered from 0, where ord holds pairs of positions in sub and seqn     *)
(* (preconditionOrdering) arranges these positions topologically; what is  *)
(* pruned stays in place and is listed in pt (tasks), pm (methods) and pf  *)
(* (facts).  status is "ok" until the grounder gives up.                   *)
(***************************************************************************)
EXTENDS GroundHTN

LiveTasks(g) == DOMAIN g.tasks \ g.pt
LivePrims(g) == {t \in LiveTasks(g) : g.tasks[t].prim}
LiveMethods(g) == DOMAIN g.methods \ g.pm
MethodsOf(g, t) == {m \in LiveMethods(g) : g.methods[m].task = t}
Containing(g, t) == {m \in LiveMethods(g) : t \in ToSet(g.methods[m].sub)}

(* The compiled conditional effects of task t.                             *)
Guarded(g, t) ==
  {c \in LivePrims(g) : /\ g.tasks[c].ce
                        /\ g.tasks[c].pre \cap g.guards \cap g.tasks[t].add # {}}
Condition(g, c) == g.tasks[c].pre \ g.guards

(***************************************************************************)
(* The problem g stands for: what is not pruned, with the conditional      *)
(* effects back in the tasks they were compiled from.                      *)
(***************************************************************************)
Effects(g, t, dir) ==
  {<<{}, f>> : f \in g.tasks[t][dir] \ (g.guards \cup g.pf)}
  \cup UNION {{<<Condition(g, c) \ g.pf, f>> : f \in g.tasks[c][dir] \ g.pf} : c \in Guarded(g, t)}

TaskWithEffects(g, t) ==
  [name |-> g.tasks[t].name, prim |-> g.tasks[t].prim, pre |-> g.tasks[t].pre \ g.pf,
   add |-> Effects(g, t, "add"), del |-> Effects(g, t, "del")]

AsProblem(g, neg) ==
  [tasks |-> [t \in {u \in LiveTasks(g) : ~g.tasks[u].ce} |-> TaskWithEffects(g, t)],
   methods |-> [m \in LiveMethods(g) |->
                  [x \in {"name", "task", "sub", "ord"} |-> g.methods[m][x]]],
   top |-> g.top, init |-> g.init \ g.pf, goal |-> g.goal \ (g.pf \cap g.init),
   neg |-> neg, bound |-> g.bound]

----------------------------------------------------------------------------
(***************************************************************************)
(* applyEffectPriority.  Of an effect that is both added and deleted one   *)
(* is removed: the delete, or the add if the fact is a negation.  The same *)
(* goes for a conditional effect against an unconditional one, and for two *)
(* conditional ones with the same condition.  A conditional effect that    *)
(* should win against an unconditional one cannot be written.              *)
(***************************************************************************)
OwnPriority(g, t) ==
  LET both == g.tasks[t].add \cap g.tasks[t].del
  IN  [g.tasks[t] EXCEPT !.add = @ \ (both \cap g.neg), !.del = @ \ (both \ g.neg)]

(* The conditional effects of t whose direction on f loses.                *)
Losing(g, t) ==
  LET On(f, dir) == {c \in Guarded(g, t) : f \in g.tasks[c][dir]}
      loses(f) == IF f \in g.neg THEN "add" ELSE "del"
      wins(f) == IF f \in g.neg THEN "del" ELSE "add"
      Useless(f) ==
        (IF f \in g.tasks[t][wins(f)] THEN On(f, "add") \cup On(f, "del") ELSE {})
        \cup (IF f \in g.tasks[t][loses(f)] THEN On(f, loses(f)) ELSE {})
      Beaten(f) ==
        {c \in On(f, loses(f)) : \E d \in On(f, wins(f)) : Condition(g, c) = Condition(g, d)}
      Unsupported(f) == f \in g.tasks[t][loses(f)] /\ On(f, wins(f)) # {}
  IN  [pruned |-> UNION {Useless(f) \cup Beaten(f) : f \in g.facts},
       unsupported |-> \E f \in g.facts : Unsupported(f)]

ApplyEffectPriority(g) ==
  LET own == [g EXCEPT !.tasks = [t \in DOMAIN g.tasks |->
                                    IF t \in LivePrims(g) THEN OwnPriority(g, t) ELSE g.tasks[t]]]
  IN  [own EXCEPT !.pt = @ \cup UNION {Losing(own, t).pruned : t \in LivePrims(g)},
                  !.status = IF \E t \in LivePrims(g) : Losing(own, t).unsupported
                             THEN "unsupported" ELSE @]

----------------------------------------------------------------------------
(***************************************************************************)
(* sortSubtasksOfMethodsTopologically, with the depth-first search of      *)
(* topsort (util.cpp): a task is put before all that was put down earlier. *)
(***************************************************************************)
RECURSIVE Visit(_, _, _)
Visit(ord, a, done) ==
  IF a \in ToSet(done) THEN done
  ELSE <<a>> \o FoldLeft(LAMBDA acc, b : Visit(ord, b, acc), done,
                         SetToSortSeq({o[2] : o \in {q \in ord : q[1] = a}}, <))

TopSort(m) ==
  FoldLeft(LAMBDA acc, a : Visit(m.ord, a, acc), <<>>, [i \in DOMAIN m.sub |-> i])

SortSubtasks(g) ==
  [g EXCEPT !.methods = [m \in DOMAIN g.methods |->
     IF m \in g.pm THEN g.methods[m] ELSE [g.methods[m] EXCEPT !.seqn = TopSort(g.methods[m])]]]

(***************************************************************************)
(* removeUnnecessaryFacts: facts whose truth no task can change, and facts *)
(* that no task (pruned or not) and no goal asks for.                      *)
(***************************************************************************)
Changes(g) ==
  UNION {(g.tasks[t].add \ g.init) \cup (g.tasks[t].del \cap g.init) : t \in LivePrims(g)}

RemoveUnnecessaryFacts(g) ==
  LET asked == g.goal \cup UNION {g.tasks[t].pre : t \in DOMAIN g.tasks}
  IN  IF g.goal \subseteq g.facts
      THEN [g EXCEPT !.pf = @ \cup (g.facts \ Changes(g)) \cup (g.facts \ asked)]
      ELSE [g EXCEPT !.status = "unsolvable"]

----------------------------------------------------------------------------
(* The orderings and the arrangement of a method that loses subtask i.     *)
Renumber(i, k) == IF k > i THEN k - 1 ELSE k

(* Mutant: what was ordered only through the removed subtask is forgotten. *)
DropSubtaskOnly(m, i) ==
  [m EXCEPT !.sub = RemoveAt(@, i),
            !.ord = {<<Renumber(i, o[1]), Renumber(i, o[2])>> : o \in {p \in @ : i \notin {p[1], p[2]}}},
            !.seqn = LET rest == SelectSeq(@, LAMBDA k : k # i)
                     IN  [j \in DOMAIN rest |-> Renumber(i, rest[j])]]

DropSubtask(m, i) ==
  LET kept == {o \in m.ord : i \notin {o[1], o[2]}}
      induced == {<<a[1], b[2]>> : a \in {o \in m.ord : o[2] = i}, b \in {o \in m.ord : o[1] = i}}
      rest == SelectSeq(m.seqn, LAMBDA k : k # i)
  IN  [m EXCEPT !.sub = RemoveAt(@, i),
                !.ord = {<<Renumber(i, o[1]), Renumber(i, o[2])>> : o \in kept \cup induced},
                !.seqn = [j \in DOMAIN rest |-> Renumber(i, rest[j])]]

(***************************************************************************)
(* removeEmptyMethodPreconditions: method preconditions of which nothing   *)
(* is left.  After a removal the scan skips the subtask that moved up.     *)
(***************************************************************************)
RECURSIVE DropFrom(_, _, _)
DropFrom(m, t, i) ==
  IF i > Len(m.sub) THEN m
  ELSE DropFrom(IF m.sub[i] = t THEN DropSubtask(m, i) ELSE m, t, i + 1)

EmptyPreconditions(g) ==
  {t \in LivePrims(g) : /\ g.tasks[t].name.kind = "mprec"
                        /\ g.tasks[t].pre \cup g.tasks[t].add \cup g.tasks[t].del \subseteq g.pf}

RemoveEmptyMethodPreconditions(g) ==
  FoldLeft(LAMBDA h, t :
             [h EXCEPT !.pt = @ \cup {t},
                       !.methods = [m \in DOMAIN h.methods |->
                         IF m \in g.pm THEN h.methods[m] ELSE DropFrom(h.methods[m], t, 1)]],
           g, SetToSortSeq(EmptyPreconditions(g), <))

----------------------------------------------------------------------------
(***************************************************************************)
(* expandAbstractTasksWithSingleMethod, for one task t with the only       *)
(* method u: u takes the place of t wherever t is a subtask.  Its first    *)
(* subtask takes the position of t and the others are appended; the new    *)
(* name records where in the arrangement of the result the subtasks of the *)
(* two methods are (-1, -2, ... for those of u), for the plan converter.   *)
(***************************************************************************)
(* Where the j-th subtask of the expanded method goes.                     *)
(* Mutant: counted as if the expanded task kept its position. *)
PlaceOneFurther(m, i, j) == IF j = 1 THEN i ELSE Len(m.sub) + j

Place(m, i, j) == IF j = 1 THEN i ELSE Len(m.sub) + j - 1

ExpandedOrd(m, i, u) ==
  LET places == {Place(m, i, j) : j \in DOMAIN u.sub}
  IN  m.ord \cup {<<p, o[2]>> : p \in places, o \in {q \in m.ord : q[1] = i}}
            \cup {<<o[1], p>> : p \in places, o \in {q \in m.ord : q[2] = i}}
            \cup {<<Place(m, i, o[1]), Place(m, i, o[2])>> : o \in u.ord}

(* Mutant: the positions of the expanded method are not translated. *)
ExpandedSeqnUntranslated(m, i, u) ==
  FlattenSeq([k \in DOMAIN m.seqn |-> IF m.seqn[k] = i THEN u.seqn ELSE <<m.seqn[k]>>])

ExpandedSeqn(m, i, u) ==
  FlattenSeq([k \in DOMAIN m.seqn |->
    IF m.seqn[k] = i THEN [j \in DOMAIN u.seqn |-> Place(m, i, u.seqn[j])] ELSE <<m.seqn[k]>>])

ExpandedName(m, i, u, tname) ==
  [kind |-> "exp", main |-> m.name, task |-> tname, inner |-> u.name,
   pos |-> (CHOOSE k \in DOMAIN m.seqn : m.seqn[k] = i) - 1,
   map |-> FlattenSeq([k \in DOMAIN m.seqn |->
             IF m.seqn[k] = i THEN [j \in DOMAIN u.seqn |-> -j] ELSE <<k - 1>>])]

ExpandAt(m, i, u, tname) ==
  [(IF u.sub = <<>> THEN DropSubtask(m, i)
    ELSE [m EXCEPT !.sub = [@ EXCEPT ![i] = u.sub[1]] \o Tail(u.sub),
                   !.ord = ExpandedOrd(m, i, u),
                   !.seqn = ExpandedSeqn(m, i, u)])
   EXCEPT !.name = ExpandedName(m, i, u, tname)]

RECURSIVE ExpandIn(_, _, _, _)
ExpandIn(m, t, u, tname) ==
  IF t \notin ToSet(m.sub) THEN m
  ELSE LET i == CHOOSE x \in DOMAIN m.sub : m.sub[x] = t /\ \A y \in 1..(x - 1) : m.sub[y] # t
       IN  ExpandIn(ExpandAt(m, i, u, tname), t, u, tname)

Choiceless(g, t, keepTwo) ==
  /\ t \in LiveTasks(g) /\ ~g.tasks[t].prim /\ t # g.top
  /\ Cardinality(MethodsOf(g, t)) = 1
  /\ ~(/\ keepTwo
       /\ \A u \in MethodsOf(g, t) : Len(g.methods[u].sub) >= 2
       /\ \E m \in Containing(g, t) : Len(g.methods[m].sub) > 1)

UnitMethod(g, t) == g.methods[CHOOSE m \in MethodsOf(g, t) : TRUE]

ExpandTask(g, t) ==
  LET u == UnitMethod(g, t)
  IN  [g EXCEPT !.pt = @ \cup {t},
                !.pm = @ \cup MethodsOf(g, t),
                !.methods = [m \in DOMAIN @ |->
                   IF m \in Containing(g, t)
                   THEN ExpandIn(g.methods[m], t, u, g.tasks[t].name) ELSE g.methods[m]]]

(* An empty method makes another method shorter: the tasks are looked at   *)
(* once more.                                                              *)
EmptyExpanded(g, t) == UnitMethod(g, t).sub = <<>> /\ Containing(g, t) # {}

----------------------------------------------------------------------------
(***************************************************************************)
(* contract_consecutive_primitives: in the arrangement of a method, every  *)
(* block of two or more primitive tasks becomes one.  The method becomes   *)
(* totally ordered, and is pruned if a block cannot be executed.           *)
(***************************************************************************)
Segments(g, tasks) ==
  FoldLeft(LAMBDA acc, t :
             IF g.tasks[t].prim /\ acc # <<>> /\ g.tasks[Head(Last(acc))].prim
             THEN Append(Front(acc), Append(Last(acc), t))
             ELSE Append(acc, <<t>>),
           <<>>, tasks)

Sequel(b, t) ==
  [b EXCEPT !.ok = @ /\ t.pre \cap b.del = {},
            !.pre = @ \cup (t.pre \ b.add),
            !.add = (@ \ t.del) \cup t.add,
            !.del = (@ \cup t.del) \ t.add]

Block(g, segment) ==
  FoldLeft(LAMBDA b, t : Sequel(b, g.tasks[t]),
           [ok |-> TRUE, pre |-> {}, add |-> {}, del |-> {}], segment)

Primitive(name, pre, add, del) ==
  [name |-> name, prim |-> TRUE, pre |-> pre, add |-> add, del |-> del, ce |-> FALSE, none |-> {}]

AddTask(g, t) == [g EXCEPT !.tasks = (Cardinality(DOMAIN @) :> t) @@ @]
AddMethod(g, m) == [g EXCEPT !.methods = (Cardinality(DOMAIN @) :> m) @@ @]

Sequence(name, t, sub) ==
  [name |-> name, task |-> t, sub |-> sub, seqn |-> [i \in DOMAIN sub |-> i],
   ord |-> {<<i, i + 1>> : i \in 1..(Len(sub) - 1)}]

(* One segment: acc.g gains a task, acc.sub its number; acc.ok remembers.  *)
ContractSegment(acc, segment) ==
  LET b == Block(acc.g, segment)
  IN  IF Len(segment) = 1 \/ ~acc.ok THEN [acc EXCEPT !.sub = Append(@, Head(segment))]
      ELSE IF ~b.ok THEN [acc EXCEPT !.ok = FALSE]
      ELSE [acc EXCEPT
              !.sub = Append(@, Cardinality(DOMAIN acc.g.tasks)),
              !.g = AddTask(@, Primitive(
                      Aggregate([i \in DOMAIN segment |-> acc.g.tasks[segment[i]].name]),
                      b.pre, b.add, b.del))]

ContractMethod(g, m) ==
  LET method == g.methods[m]
      segments == Segments(g, [k \in DOMAIN method.seqn |-> method.sub[method.seqn[k]]])
      new == FoldLeft(ContractSegment, [g |-> g, sub |-> <<>>, ok |-> TRUE], segments)
      cut == [new.g EXCEPT !.pm = @ \cup {m}]
  IN  IF \A k \in DOMAIN segments : Len(segments[k]) = 1 THEN g
      ELSE IF ~new.ok THEN cut
      ELSE AddMethod(cut, Sequence(method.name, method.task, new.sub))

ContractPrimitives(g) ==
  FoldLeft(ContractMethod, g, SetToSortSeq(LiveMethods(g), <))

(***************************************************************************)
(* change_to_methods_with_at_most_two_tasks: a longer method becomes a     *)
(* chain of methods with an intermediate task each.  Methods that are      *)
(* neither totally ordered nor unordered are lost.                         *)
(***************************************************************************)
(* Neighbours of a topological order are ordered iff there is no other.    *)
IsTotalOrder(m) == \A k \in 1..(Len(m.seqn) - 1) : <<m.seqn[k], m.seqn[k + 1]>> \in m.ord
IsNoOrder(m) == m.ord = {}

Part(name, k) == IF k = 0 THEN name ELSE [kind |-> name.kind, of |-> name, part |-> k]

AtMostTwo(g, m) ==
  LET method == g.methods[m]
      n == Len(method.sub)
      Sub(k) == method.sub[method.seqn[k + 1]]
      cut == [g EXCEPT !.pm = @ \cup {m}]
      Between(k) == Cardinality(DOMAIN g.tasks) + k
      links == [k \in 1..(n - 1) |->
                  [name |-> Part(method.name, k - 1),
                   task |-> IF k = 1 THEN method.task ELSE Between(k - 2),
                   sub |-> <<Sub(k - 1), IF k = n - 1 THEN Sub(k) ELSE Between(k - 1)>>,
                   ord |-> IF IsTotalOrder(method) THEN {<<1, 2>>} ELSE {}, seqn |-> <<1, 2>>]]
      tasks == [k \in 1..(n - 2) |->
                  [Primitive(Intermediate(m, k - 1), {}, {}, {}) EXCEPT !.prim = FALSE]]
  IN  IF n <= 2 THEN g
      ELSE IF ~IsTotalOrder(method) /\ ~IsNoOrder(method) THEN cut
      ELSE FoldLeft(AddMethod, FoldLeft(AddTask, cut, tasks), links)

AtMostTwoTasksPerMethod(g) ==
  FoldLeft(AtMostTwo, g, SetToSortSeq(LiveMethods(g), <))

----------------------------------------------------------------------------
(***************************************************************************)
(* unify_duplicates (duplicate.cpp): artificial primitive tasks that do    *)
(* the same on the facts that are left are one, and so are aggregates of   *)
(* the same name.                                                          *)
(***************************************************************************)
SameKey(g, t, u) ==
  LET x == g.tasks[t]  y == g.tasks[u]
  IN  /\ x.pre \ g.pf = y.pre \ g.pf
      /\ x.add \ g.pf = y.add \ g.pf
      /\ x.del \ g.pf = y.del \ g.pf
      /\ \/ Artificial(x.name) /\ Artificial(y.name)
         \/ x.name.kind = "agg" /\ x.name = y.name

UnifyDuplicates(g) ==
  LET Twins(t) == {u \in LivePrims(g) : SameKey(g, t, u)}
      Representative(t) ==
        IF t \notin LivePrims(g) \/ Twins(t) = {} THEN t
        ELSE CHOOSE u \in Twins(t) : \A v \in Twins(t) : u <= v
  IN  [g EXCEPT !.pt = @ \cup {t \in LivePrims(g) : Representative(t) # t},
                !.methods = [m \in DOMAIN @ |->
                   IF m \in g.pm THEN g.methods[m]
                   ELSE [g.methods[m] EXCEPT !.sub = [i \in DOMAIN @ |-> Representative(@[i])]]]]
=============================================================================
