------------------------------ MODULE LiftedGPG ------------------------------
(***************************************************************************)
(* Lifted grounding of an HTN problem: run_lifted_HTN_GPG of the grounder  *)
(* (grounder/src/liftedGPG.cpp) with what it calls, the expansion of       *)
(* conditional effects before it, hierarchy typing (hierarchy-typing.cpp), *)
(* the generic planning graph (gpg.h) run once over facts and once over    *)
(* tasks, and the depth-first collection of what descends from the initial *)
(* task (gpg.cpp).                                                         *)
(*                                                                         *)
(* The planning graph is a join: an atom (a fact, or a ground task) is     *)
(* taken from a queue and matched against the antecedents of every action  *)
(* (a primitive task, or a method) together with the atoms taken before.   *)
(***************************************************************************)
EXTENDS Integers, Sequences, FiniteSets, SequencesExt

CONSTANT
  Domains   \* the lifted problems the parser may deliver

(***************************************************************************)
(* A lifted problem: objects are integers, sorts are sets of them.         *)
(*   prim, abs, top         primitive and abstract tasks, initial task     *)
(*   sort[x]                the sorts of the variables of task or method x *)
(*   con[x]                 its constraints <<equal, i, j>> on variables   *)
(*   pre[t], add[t], del[t], cond[t] of a primitive task: sequences of     *)
(*                          literals [head, args], and of effects          *)
(*                          [task, guard, cond, eff, adds]                 *)
(*   meth, of[m], par[m], sub[m]  methods: their task, the variables that  *)
(*                          are its parameters, the sequence of subtasks   *)
(*   init                   the sequence of initial facts                  *)
(*   typed, static          options: hierarchy typing, and its check of    *)
(*                          static preconditions                           *)
(***************************************************************************)
VARIABLES
  d,          \* the problem, after the expansion of conditional effects
  phase,      \* "HT", "PG", "TDG", "DFS", "Done"
  stack,      \* hierarchy typing: the calls of taskDfs still to be made
  typing,     \* per task and method, the typings recorded: sets of sequences of sets
  atoms,      \* the numbered atoms of this graph, processed or queued
  done,       \* how many of them are processed
  output,     \* the groundings found, in order: [act, val, ante, add]
  prediction, \* matching looks ahead at later antecedents
  facts,      \* what the PG left: its numbered facts
  tasks,      \* its primitive groundings
  kept        \* what the final depth-first search keeps

graph == <<atoms, done, output, prediction>>
vars == <<d, phase, stack, typing, graph, facts, tasks, kept>>

Atom(head, args) == [head |-> head, args |-> args]
Instance(lit, val) == Atom(lit.head, [k \in DOMAIN lit.args |-> val[lit.args[k]]])
VarsOf(lit) == ToSet(lit.args)

(* What n steps in a row make of base: the loops of the code. *)
Iterate(Step(_, _), base, n) ==
  LET after[k \in 0..n] == IF k = 0 THEN base ELSE Step(after[k - 1], k)
  IN  after[n]

(* The elements of S in the order of the relation R, as a sort leaves them. *)
Ascending(S, R) ==
  [n \in 1..Cardinality(S) |->
     CHOOSE x \in S : Cardinality({y \in S : y = x \/ <<y, x>> \in R}) = n]

(***************************************************************************)
(* What the parser ensures: finitely many tasks and methods over variables *)
(* with finite sorts, literals over the variables of their task or method, *)
(* orderings of existing subtasks; tasks for conditional effects are new.  *)
(***************************************************************************)
IsSequence(s) == s \in Seq(ToSet(s))

LiteralsOver(lits, variables) ==
  IsSequence(lits) /\ \A k \in DOMAIN lits : lits[k].args \in Seq(variables)

IsProblem(q) ==
  /\ IsFiniteSet(q.prim) /\ IsFiniteSet(q.meth)
  /\ \A x \in q.prim \cup q.meth :
       IsSequence(q.sort[x]) /\ \A k \in DOMAIN q.sort[x] : IsFiniteSet(q.sort[x][k])
  /\ \A t \in q.prim : /\ LiteralsOver(q.pre[t], DOMAIN q.sort[t])
                       /\ LiteralsOver(q.add[t], DOMAIN q.sort[t])
  /\ \A m \in q.meth : /\ LiteralsOver(q.sub[m], DOMAIN q.sort[m])
                       /\ q.ord[m] \subseteq (DOMAIN q.sub[m]) \X (DOMAIN q.sub[m])

(* The hierarchy: constraints are on the variables, methods decompose      *)
(* abstract tasks, subtasks have as many arguments as their task has       *)
(* variables, and the initial task has none.                               *)
IsHierarchy(q) ==
  /\ q.top \in q.abs /\ q.sort[q.top] = <<>>
  /\ IsFiniteSet(q.abs) /\ q.abs \cap q.prim = {} /\ q.meth \cap (q.prim \cup q.abs) = {}
  /\ \A t \in q.abs :
       IsSequence(q.sort[t]) /\ \A k \in DOMAIN q.sort[t] : IsFiniteSet(q.sort[t][k])
  /\ \A x \in q.prim \cup q.abs \cup q.meth :
       /\ IsFiniteSet(q.con[x])
       /\ \A c \in q.con[x] : c[2] \in DOMAIN q.sort[x] /\ c[3] \in DOMAIN q.sort[x]
  /\ \A m \in q.meth :
       /\ q.of[m] \in q.abs /\ q.par[m] \in Seq(DOMAIN q.sort[m])
       /\ \A k \in DOMAIN q.sub[m] :
            /\ q.sub[m][k].head \in q.prim \cup q.abs
            /\ DOMAIN q.sub[m][k].args = DOMAIN q.sort[q.sub[m][k].head]

EffectsOver(effects, variables) ==
  /\ IsSequence(effects)
  /\ \A k \in DOMAIN effects : /\ LiteralsOver(effects[k].cond, variables)
                               /\ effects[k].eff.args \in Seq(variables)

ASSUME DomainsAssumption ==
  \A q \in Domains :
    /\ IsProblem(q) /\ IsHierarchy(q) /\ IsSequence(q.init)
    /\ q.prim \cup q.abs \cup q.meth \subseteq DOMAIN q.sort \cap DOMAIN q.con
    /\ q.prim = DOMAIN q.pre /\ q.prim = DOMAIN q.add
    /\ \A t \in q.prim : EffectsOver(q.cond[t], DOMAIN q.sort[t])
    /\ \A t \in q.prim : \A k \in DOMAIN q.cond[t] :
         q.cond[t][k].task \notin q.prim \cup q.abs \cup q.meth

----------------------------------------------------------------------------
(***************************************************************************)
(* expand_conditional_effects_into_artificial_tasks: a conditional effect  *)
(* becomes a task of its own over the variables it mentions, with its      *)
(* condition and a guard as preconditions; the main task adds the guard.   *)
(***************************************************************************)
CEVars(ce) ==
  LET lits == Append(ce.cond, ce.eff)
      places == UNION {{k} \X DOMAIN lits[k].args : k \in DOMAIN lits}
      At(p) == lits[p[1]].args[p[2]]
      Before(p, q) == p[1] < q[1] \/ (p[1] = q[1] /\ p[2] < q[2])
      first == {p \in places : \A q \in places : Before(q, p) => At(q) # At(p)}
      order == Ascending(first, {pq \in first \X first : Before(pq[1], pq[2])})
  IN  [n \in DOMAIN order |-> At(order[n])]

ToCE(ce, lit) ==   \* convertToNewVariables
  Atom(lit.head, [k \in DOMAIN lit.args |->
                    CHOOSE n \in DOMAIN CEVars(ce) : CEVars(ce)[n] = lit.args[k]])

Conditionals(q) == UNION {{[main |-> t, ce |-> q.cond[t][k]] : k \in DOMAIN q.cond[t]} : t \in q.prim}

ExpandConditionalEffects(q) ==
  LET CEs == Conditionals(q)
      ceTasks == {c.ce.task : c \in CEs}
      Of(t) == CHOOSE c \in CEs : c.ce.task = t
      Guard(c) == Atom(c.ce.guard, [k \in DOMAIN CEVars(c.ce) |-> k])
      all == q.prim \cup ceTasks
      Field(old, New(_)) == [x \in DOMAIN old \cup ceTasks |->
                               IF x \in ceTasks THEN New(Of(x)) ELSE old[x]]
      CESort(c) == [k \in DOMAIN CEVars(c.ce) |-> q.sort[c.main][CEVars(c.ce)[k]]]
      CEPre(c) == Append([k \in DOMAIN c.ce.cond |-> ToCE(c.ce, c.ce.cond[k])], Guard(c))
      CEAdd(c) == IF c.ce.adds THEN <<ToCE(c.ce, c.ce.eff)>> ELSE <<>>
      CEDel(c) == IF c.ce.adds THEN <<>> ELSE <<ToCE(c.ce, c.ce.eff)>>
      NoCon(c) == {}
      guards(t) == [k \in DOMAIN q.cond[t] |-> Atom(q.cond[t][k].guard, CEVars(q.cond[t][k]))]
  IN  [prim |-> all, abs |-> q.abs, top |-> q.top,
       sort |-> Field(q.sort, CESort),
       con |-> Field(q.con, NoCon),
       pre |-> Field(q.pre, CEPre),
       add |-> Field([t \in q.prim |-> q.add[t] \o guards(t)], CEAdd),
       del |-> Field(q.del, CEDel),
       meth |-> q.meth, of |-> q.of, par |-> q.par, sub |-> q.sub, ord |-> q.ord,
       init |-> q.init, typed |-> q.typed, static |-> q.static,
       ceTasks |-> ceTasks, guards |-> {c.ce.guard : c \in CEs}]

----------------------------------------------------------------------------
(* Hierarchy typing *)

(***************************************************************************)
(* intersect: restrict the set a of a variable to b.  When neither is ten  *)
(* times larger, the two are merged in order, and what is left of a when b *)
(* is exhausted stays.                                                     *)
(***************************************************************************)
Intersect(a, b) ==
  IF Cardinality(a) > 10 * Cardinality(b) \/ Cardinality(b) > 10 * Cardinality(a)
  THEN a \cap b
  ELSE (a \cap b) \cup {x \in a : \A y \in b : x > y}

(* One round of applyConstraints over the constraints, in any fixed order. *)
Constrained(con, pc) ==
  LET cs == SetToSeq(con)
      Step(q, k) ==
        LET i == cs[k][2]  j == cs[k][3] IN
        IF cs[k][1]
        THEN [q EXCEPT ![i] = q[i] \cap q[j], ![j] = q[i] \cap q[j]]
        ELSE LET qj == IF Cardinality(q[i]) = 1 THEN [q EXCEPT ![j] = q[j] \ q[i]] ELSE q
             IN  IF Cardinality(qj[j]) = 1 THEN [qj EXCEPT ![i] = qj[i] \ qj[j]] ELSE qj
  IN  Iterate(Step, pc, Len(cs))

(* Rounds until nothing changes: each one before that removes a value.     *)
ApplyConstraints(con, pc) ==
  LET Round(q, n) == Constrained(con, q)
  IN  Iterate(Round, pc, Cardinality(UNION {{k} \X pc[k] : k \in DOMAIN pc}))

(* Restrict the method's variables by the typing of its task. *)
FromTask(m, pc) ==
  LET Step(q, k) ==
        LET v == d.par[m][k] IN
        [val |-> [q.val EXCEPT ![v] = IF v \in q.full THEN @ \cap pc[k] ELSE Intersect(@, pc[k])],
         full |-> q.full \ {v}]
  IN  Iterate(Step, [val |-> d.sort[m], full |-> DOMAIN d.sort[m]], Len(d.par[m]))

StaticPredicate(h) ==
  \A t \in d.prim : /\ \A k \in DOMAIN d.add[t] : d.add[t][k].head # h
                    /\ \A k \in DOMAIN d.del[t] : d.del[t][k].head # h

(* The preconditions of the primitive subtasks of m, over the variables    *)
(* of m, subtask by subtask.                                               *)
Preconditions(m) ==
  LET OfSub(s) == IF s.head \notin d.prim THEN <<>>
                  ELSE [k \in DOMAIN d.pre[s.head] |-> Instance(d.pre[s.head][k], s.args)]
  IN  FlattenSeq([k \in DOMAIN d.sub[m] |-> OfSub(d.sub[m][k])])

(***************************************************************************)
(* Restrict the variables of a static precondition that has arguments to   *)
(* the initial facts that fit it.  A variable that still has its full sort *)
(* is marked (full): when all are, the smallest is expanded before.        *)
(***************************************************************************)
FromStatic(q, lit) ==
  LET Meets(f) == /\ f.head = lit.head
                  /\ \A k \in DOMAIN lit.args : f.args[k] \in q.val[lit.args[k]]
      New(k) == {f.args[k] : f \in {g \in ToSet(d.init) : Meets(g)}}
      smallest == CHOOSE v \in VarsOf(lit) :
                    \A w \in VarsOf(lit) : Cardinality(q.val[v]) <= Cardinality(q.val[w])
      full == IF VarsOf(lit) \subseteq q.full THEN q.full \ {smallest} ELSE q.full
      Write(r, k) ==
        LET v == lit.args[k] IN
        IF v \in r.full THEN [val |-> [r.val EXCEPT ![v] = @ \cap New(k)], full |-> r.full \ {v}]
        ELSE IF Cardinality(r.val[v]) = Cardinality(New(k)) THEN r
        ELSE [r EXCEPT !.val[v] = Intersect(@, New(k))]
  IN  IF StaticPredicate(lit.head) /\ lit.args # <<>>
      THEN Iterate(Write, [val |-> q.val, full |-> full], Len(lit.args))
      ELSE q

MethodTyping(m, pc) ==
  LET lits == Preconditions(m)
      ByLiteral(q, k) == FromStatic(q, lits[k])
      q == FromTask(m, pc)
      r == IF d.static THEN Iterate(ByLiteral, q, Len(lits)) ELSE q
  IN  ApplyConstraints(d.con[m], r.val)

SubtaskTyping(m, s, pc) ==
  [task |-> s.head,
   pc |-> ApplyConstraints(d.con[s.head], [k \in DOMAIN s.args |-> pc[s.args[k]]])]

(* Mutant: the test for a known typing is the wrong way round. *)
Includes(t, pc, old) == \A k \in DOMAIN d.sort[t] : old[k] \subseteq pc[k]

Included(t, pc, old) == \A k \in DOMAIN d.sort[t] : pc[k] \subseteq old[k]

(* The calls for the subtasks of m, in their order. *)
SubtaskCalls(m, pc) == [k \in DOMAIN d.sub[m] |-> SubtaskTyping(m, d.sub[m][k], pc)]

MethodsOf(t) == SetToSeq({m \in d.meth : d.of[m] = t})

(***************************************************************************)
(* taskDfs, one call: stop when a recorded typing includes this one,       *)
(* otherwise record it and, for every method that keeps a value for each   *)
(* of its variables, record the method's typing and call for its subtasks. *)
(***************************************************************************)
TaskDfs ==
  LET call == Head(stack)
      ms == MethodsOf(call.task)
      pcs == [m \in ToSet(ms) |-> MethodTyping(m, call.pc)]
      able == {m \in ToSet(ms) : \A k \in DOMAIN pcs[m] : pcs[m][k] # {}}
      calls == FlattenSeq([i \in DOMAIN ms |->
                             IF ms[i] \in able THEN SubtaskCalls(ms[i], pcs[ms[i]]) ELSE <<>>])
  IN  /\ phase = "HT" /\ stack # <<>>
      /\ IF \E old \in typing[call.task] : Included(call.task, call.pc, old)
         THEN stack' = Tail(stack) /\ UNCHANGED typing
         ELSE /\ stack' = calls \o Tail(stack)
              /\ typing' = [x \in DOMAIN typing |->
                   IF x = call.task THEN typing[x] \cup {call.pc}
                   ELSE IF x \in able THEN typing[x] \cup {pcs[x]} ELSE typing[x]]
      /\ UNCHANGED <<d, phase, graph, facts, tasks, kept>>

(* The search starts at the initial task, which has no variables. *)
TopCall(q) == IF q.typed THEN <<[task |-> q.top, pc |-> <<>>]>> ELSE <<>>

(***************************************************************************)
(* isAssignmentCompatible, for an assignment of all variables: some        *)
(* recorded typing admits it.  Compiled conditional effects always pass.   *)
(***************************************************************************)
Compatible(x, val) ==
  \/ ~d.typed
  \/ x \in d.ceTasks
  \/ \E pc \in typing[x] : \A k \in DOMAIN val : val[k] \in pc[k]

----------------------------------------------------------------------------
(* The generic planning graph *)

Actions == IF phase = "PG" THEN d.prim ELSE d.meth
Antecedents(a) == IF phase = "PG" THEN d.pre[a] ELSE d.sub[a]
Consequences(a) == IF phase = "PG" THEN d.add[a] ELSE <<Atom(d.of[a], d.par[a])>>

(* All assignments of the variables of x within their sorts. *)
Valuations(x) == {v \in [DOMAIN d.sort[x] -> UNION {d.sort[x][k] : k \in DOMAIN d.sort[x]}] :
                    \A k \in DOMAIN v : v[k] \in d.sort[x][k]}

Satisfies(con, v) == \A c \in con : c[1] <=> v[c[2]] = v[c[3]]

(***************************************************************************)
(* insertState: whether atom number n may fit antecedent j of a: same      *)
(* head, values within the sorts of the variables, equal ones for equal    *)
(* variables.                                                              *)
(***************************************************************************)
Fits(a, j, n) ==
  LET lit == Antecedents(a)[j] IN
  /\ atoms[n].head = lit.head
  /\ \A k \in DOMAIN lit.args : atoms[n].args[k] \in d.sort[a][lit.args[k]]
  /\ \A k, l \in DOMAIN lit.args : lit.args[k] = lit.args[l] => atoms[n].args[k] = atoms[n].args[l]

(* hasInstanceForAllAntecedants: some processed atom for every antecedent. *)
EachHasAtom(a, n) == \A j \in DOMAIN Antecedents(a) : \E x \in 1..n : Fits(a, j, x)

(***************************************************************************)
(* hasPotentiallyConsistentExtension after the first k antecedents: each   *)
(* later one has an atom that agrees with the variables assigned by them.  *)
(***************************************************************************)
MayExtend(a, k, val, n) ==
  LET assigned == UNION {VarsOf(Antecedents(a)[j]) : j \in 1..k}
  IN  \A j \in (k + 1)..Len(Antecedents(a)) :
        \E x \in 1..n : /\ Fits(a, j, x)
                        /\ \A l \in DOMAIN Antecedents(a)[j].args :
                             LET v == Antecedents(a)[j].args[l]
                             IN  v \in assigned => atoms[x].args[l] = val[v]

NumberOf(atom, list) == CHOOSE n \in DOMAIN list : list[n] = atom

(* Mutant: no elimination of duplicates. *)
MayAlwaysUseNew(j, i) == TRUE

(* Only an antecedent before the one matched first may take the new atom again. *)
MayUseNew(j, i) == j < i

(* doesStateFulfillPrecondition: atom n is the antecedent j of a under val. *)
Fulfils(a, j, n, val) == atoms[n] = Instance(Antecedents(a)[j], val)

(***************************************************************************)
(* gpgMatchPrecondition and gpgAssignVariables: the groundings of a whose  *)
(* antecedent i is the new atom n.                                         *)
(***************************************************************************)
Matches(a, i, n) ==
  LET others == DOMAIN Antecedents(a) \ {i}
  IN  IF ~(Fits(a, i, n) /\ EachHasAtom(a, n)) THEN {}
      ELSE {v \in Valuations(a) :
              /\ Fulfils(a, i, n, v)
              /\ \A j \in others : \E x \in 1..n : Fulfils(a, j, x, v) /\ (x = n => MayUseNew(j, i))
              /\ prediction => \A k \in {0} \cup (others \ {Len(Antecedents(a))}) : MayExtend(a, k, v, n)
              /\ Satisfies(d.con[a], v)
              /\ Compatible(a, v)}

(***************************************************************************)
(* gpgAssignVariables, for the groundings found: the atoms they add that   *)
(* are new are numbered after the known ones, which queues them, and the   *)
(* groundings are put out.  The order of what is found together is fixed   *)
(* and left open.                                                          *)
(***************************************************************************)
Emit(found, known, out, ante, cons) ==
  LET added == UNION {{Instance(cons[f.act][k], f.val) : k \in DOMAIN cons[f.act]} : f \in found}
      all == known \o SetToSeq(added \ ToSet(known))
      fs == SetToSeq(found)
      Numbers(lits, f) == [k \in DOMAIN lits |-> NumberOf(Instance(lits[k], f.val), all)]
  IN  [atoms |-> all,
       output |-> out \o [k \in DOMAIN fs |->
                    [act |-> fs[k].act, val |-> fs[k].val,
                     ante |-> Numbers(ante[fs[k].act], fs[k]), add |-> Numbers(cons[fs[k].act], fs[k])]]]

(***************************************************************************)
(* runGpg, before its loop: number the initial atoms, each once, then take *)
(* the actions without antecedents.                                        *)
(***************************************************************************)
Distinct(s) ==
  LET first == {k \in DOMAIN s : \A j \in 1..k - 1 : s[j] # s[k]}
      order == Ascending(first, {jk \in first \X first : jk[1] < jk[2]})
  IN  [n \in DOMAIN order |-> s[order[n]]]

Free(acts, ante) ==
  UNION {{[act |-> a, val |-> v, at |-> 0] :
            v \in {w \in Valuations(a) : Satisfies(d.con[a], w) /\ Compatible(a, w)}} :
           a \in {b \in acts : ante[b] = <<>>}}

StartGraph(initial, acts, ante, cons) ==
  LET g == Emit(Free(acts, ante), Distinct(initial), <<>>, ante, cons)
  IN  /\ atoms' = g.atoms
      /\ output' = g.output
      /\ done' = 0
      /\ prediction' = TRUE

StartPG ==
  /\ phase = "HT" /\ stack = <<>>
  /\ phase' = "PG"
  /\ StartGraph(d.init, d.prim, d.pre, d.add)
  /\ UNCHANGED <<d, stack, typing, facts, tasks, kept>>

(* preconditionsByPredicate: the antecedents an atom with this head may fit. *)
Occurrences(head) ==
  UNION {{<<a, i>> : i \in {j \in DOMAIN Antecedents(a) : Antecedents(a)[j].head = head}} : a \in Actions}

(* runGpg, one turn of its loop: take an atom from the queue and match it. *)
ProcessAtom ==
  LET n == done + 1
      found == UNION {{[act |-> o[1], val |-> v, at |-> o[2]] : v \in Matches(o[1], o[2], n)} :
                        o \in Occurrences(atoms[n].head)}
      g == Emit(found, atoms, output, [a \in Actions |-> Antecedents(a)], [a \in Actions |-> Consequences(a)])
  IN  /\ phase \in {"PG", "TDG"}
      /\ done < Len(atoms)
      /\ done' = n
      /\ atoms' = g.atoms
      /\ output' = g.output
      /\ UNCHANGED <<d, phase, stack, typing, prediction, facts, tasks, kept>>

(* The lookahead is given up when it rejects little or memory is short. *)
DropPrediction ==
  /\ phase \in {"PG", "TDG"} /\ done < Len(atoms) /\ prediction
  /\ prediction' = FALSE
  /\ UNCHANGED <<d, phase, stack, typing, atoms, done, output, facts, tasks, kept>>

----------------------------------------------------------------------------
(***************************************************************************)
(* Before the task graph the subtasks of each method are sorted, those     *)
(* with most parameters first, and its ordering is renumbered with them.   *)
(***************************************************************************)
Sooner(q, m, i, j) ==
  LET a == Len(q.sub[m][i].args)  b == Len(q.sub[m][j].args)
  IN  a > b \/ (a = b /\ i > j)

SortedSubtasks(q, m) ==
  LET all == DOMAIN q.sub[m]
  IN  Ascending(all, {ij \in all \X all : Sooner(q, m, ij[1], ij[2])})

(* Mutant: the ordering keeps the old numbers. *)
SortSubtasksOnly(q) ==
  [q EXCEPT !.sub = [m \in q.meth |-> [k \in DOMAIN q.sub[m] |-> q.sub[m][SortedSubtasks(q, m)[k]]]]]

SortSubtasks(q) ==
  LET New(m, i) == NumberOf(i, SortedSubtasks(q, m))
  IN  [q EXCEPT !.sub = [m \in q.meth |-> [k \in DOMAIN q.sub[m] |-> q.sub[m][SortedSubtasks(q, m)[k]]]],
                !.ord = [m \in q.meth |-> {<<New(m, o[1]), New(m, o[2])>> : o \in q.ord[m]}]]

(* assignGroundNosToDeleteEffects: deletes of facts that are never reached are dropped. *)
DeletesOf(g) == {n \in DOMAIN atoms : \E k \in DOMAIN d.del[g.act] :
                                        atoms[n] = Instance(d.del[g.act][k], g.val)}

(* The graph of tasks starts with the groundings of the graph of facts,    *)
(* sorted by task.                                                         *)
InitialTasks ==
  LET Task(k) == NumberOf(output[k].act, SetToSeq(d.prim))
      Before(j, k) == Task(j) < Task(k) \/ (Task(j) = Task(k) /\ j < k)
      all == DOMAIN output
      sorted == Ascending(all, {jk \in all \X all : Before(jk[1], jk[2])})
  IN  [n \in DOMAIN sorted |-> Atom(output[sorted[n]].act, output[sorted[n]].val)]

StartTDG ==
  LET q == SortSubtasks(d) IN
  /\ phase = "PG" /\ done = Len(atoms)
  /\ phase' = "TDG"
  /\ d' = q
  /\ facts' = atoms
  /\ tasks' = [k \in DOMAIN output |->
                 [act |-> output[k].act, val |-> output[k].val, pre |-> ToSet(output[k].ante),
                  add |-> ToSet(output[k].add), del |-> DeletesOf(output[k])]]
  /\ StartGraph(InitialTasks, d.meth, q.sub, [m \in d.meth |-> <<Atom(d.of[m], d.par[m])>>])
  /\ UNCHANGED <<stack, typing, kept>>

(***************************************************************************)
(* tdgDfs: everything that descends from the ground initial task.          *)
(***************************************************************************)
Descend(T) ==
  LET Below(U, n) == U \cup UNION {ToSet(output[m].ante) : m \in {k \in DOMAIN output : output[k].add[1] \in U}}
  IN  Iterate(Below, T, Len(atoms))

(* Compiled conditional effects are kept when a kept task adds their guard. *)
KeptEffects(T) ==
  LET guards == {n \in DOMAIN facts : facts[n].head \in d.guards}
      added == guards \cap UNION {tasks[k].add : k \in {i \in DOMAIN tasks : Atom(tasks[i].act, tasks[i].val) \in T}}
  IN  {Atom(tasks[k].act, tasks[k].val) :
         k \in {i \in DOMAIN tasks : tasks[i].act \in d.ceTasks /\ tasks[i].pre \cap added # {}}}

Collect ==
  LET T == Descend({n \in DOMAIN atoms : atoms[n].head = d.top})
      reached == {atoms[n] : n \in T}
      methods == {k \in DOMAIN output : output[k].add[1] \in T}
  IN  /\ phase = "TDG" /\ done = Len(atoms)
      /\ phase' = "Done"
      /\ kept' = [tasks |-> reached \cup KeptEffects(reached),
                  methods |-> {[act |-> output[k].act, val |-> output[k].val] : k \in methods}]
      /\ UNCHANGED <<d, stack, typing, graph, facts, tasks>>

----------------------------------------------------------------------------
Init ==
  /\ \E q \in Domains :
       /\ d = ExpandConditionalEffects(q)
       /\ stack = TopCall(q)
       /\ typing = [x \in d.prim \cup d.abs \cup d.meth |-> {}]
  /\ phase = "HT"
  /\ atoms = <<>> /\ done = 0 /\ output = <<>> /\ prediction = TRUE
  /\ facts = <<>> /\ tasks = <<>> /\ kept = [tasks |-> {}, methods |-> {}]

Next == TaskDfs \/ StartPG \/ ProcessAtom \/ DropPrediction \/ StartTDG \/ Collect

Spec == Init /\ [][Next]_vars
----------------------------------------------------------------------------
(***************************************************************************)
(* When its queue is empty a planning graph has found every grounding      *)
(* whose antecedents are among its atoms, and each of them exactly once,   *)
(* although every atom was matched only with the atoms taken before it.    *)
(***************************************************************************)
JoinIsExact ==
  phase \in {"PG", "TDG"} /\ done = Len(atoms) =>
    LET found == {[act |-> output[k].act, val |-> output[k].val] : k \in DOMAIN output}
    IN  /\ Cardinality(found) = Len(output)
        /\ found = UNION {{[act |-> a, val |-> v] :
                             v \in {w \in Valuations(a) :
                                      /\ Satisfies(d.con[a], w) /\ Compatible(a, w)
                                      /\ \A j \in DOMAIN Antecedents(a) :
                                           Contains(atoms, Instance(Antecedents(a)[j], w))}} : a \in Actions}

(***************************************************************************)
(* Sorting the subtasks of the methods keeps their order: the constraints  *)
(* still relate the same pairs of subtasks.                                *)
(***************************************************************************)
Ordered(q, m) == {<<q.sub[m][o[1]], q.sub[m][o[2]]>> : o \in q.ord[m]}
SubtaskOrderKept ==
  [][phase = "PG" /\ phase' = "TDG" => \A m \in d.meth : Ordered(d', m) = Ordered(d, m)]_vars
=============================================================================
