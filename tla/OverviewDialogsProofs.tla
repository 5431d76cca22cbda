----------------------- MODULE OverviewDialogsProofs ------------------------
(***************************************************************************)
(* Theorems about OverviewDialogs, for any units, limits and machines: the *)
(* linked fields of the memory and processor dialogs, the identifier that  *)
(* the vsock dialog suggests, and what is saved when a dialog closes.      *)
(***************************************************************************)
EXTENDS OverviewDialogs, WellFoundedInduction, FiniteSetTheorems, TLAPS

(* A processor dialog may show no number, but then only until one is       *)
(* given; whatever it shows, the topology fits.                            *)
Processors == [max : Nat, count : Nat, sockets : Nat, cores : Nat, threads : Nat]

Fits(c) == c.max # 0 => c.sockets * c.cores * c.threads = c.max

CpuForms == [values : Processors, vm : Processors, wasRunning : BOOLEAN]

CpuInv ==
    subject = "cpu" =>
        /\ conf \in Processors /\ Fits(conf)
        /\ form # NoForm => form \in CpuForms /\ Fits(form.values)
        /\ job # NoJob => job \in [form : CpuForms, base : Processors, step : Nat \ {0}]

(* A machine never has more memory than its maximum, and the maximum that  *)
(* a dialog shows can be lowered only as far as is allowed.                *)
Units == {MiB, GiB}
Memories == [memory : Nat, currentMemory : Nat]
MemoryValues == [memory : Nat, maxMemory : Nat, unit : Units, maxUnit : Units]
MemoryForms == [values : MemoryValues, vm : Memories, wasRunning : BOOLEAN]

Legal(f, vm) ==
    /\ MinMemory <= vm.memory => MinMemory <= f.maxMemory /\ f.memory <= f.maxMemory
    /\ MinMemory <= vm.currentMemory => MinMemory <= f.memory
    /\ vm.memory <= NodeMaxMemory => f.maxMemory <= NodeMaxMemory

MemoryInv ==
    subject = "memory" =>
        /\ conf \in Memories /\ conf.currentMemory <= conf.memory
        /\ form # NoForm => form \in MemoryForms /\ Legal(form.values, form.vm)
        /\ job # NoJob => job \in [form : MemoryForms, base : Memories, step : Nat \ {0}]

RunningIsKnown == running \in BOOLEAN

-----------------------------------------------------------------------------
(* Numbers *)

LEMMA ExactQuotient ==
    ASSUME NEW d \in Nat \ {0}, NEW q \in Nat
    PROVE  (d * q) \div d = q
OBVIOUS

LEMMA WholeQuotient ==
    ASSUME NEW n \in Nat, NEW d \in Nat \ {0}, n % d = 0
    PROVE  n \div d \in Nat /\ d * (n \div d) = n
OBVIOUS

LEMMA QuotientFits ==
    ASSUME NEW n \in Nat, NEW d \in Nat \ {0}
    PROVE  n \div d \in Nat /\ (n \div d) * d \in Nat /\ (n \div d) * d <= n
OBVIOUS

-----------------------------------------------------------------------------
(* The memory dialog *)

LEMMA EnteredIsWithinBounds ==
    ASSUME NEW lowest \in Nat, NEW highest \in Nat, NEW unit \in Nat \ {0},
           NEW kib \in Enterable(lowest, highest, unit)
    PROVE  kib \in Nat /\ kib <= highest
<1> DEFINE lo == lowest \div unit
           hi == highest \div unit
<1>1. lo \in Nat /\ hi \in Nat /\ hi * unit \in Nat /\ hi * unit <= highest
    BY QuotientFits
<1>2. PICK v \in lo .. Greatest(lo, hi) : kib = Least(v, hi) * unit
    BY DEF Enterable
<1>. HIDE DEF lo, hi
<1>3. v \in Nat /\ Least(v, hi) \in Nat /\ Least(v, hi) <= hi
    BY <1>1, <1>2 DEF Least, Greatest
<1>4. ASSUME NEW a \in Nat, NEW b \in Nat, a <= b
      PROVE  a * unit \in Nat /\ a * unit <= b * unit
    BY <1>4
<1>. QED BY <1>1, <1>2, <1>3, <1>4

(* Every change of the form leaves it a form, and a legal one. *)
LEMMA MemoryEditsAreLegal ==
    ASSUME NEW f \in MemoryValues, NEW vm \in Memories, Legal(f, vm),
           NEW wasRunning \in BOOLEAN, NEW v \in MemoryEdits(f, vm, wasRunning)
    PROVE  v \in MemoryValues /\ Legal(v, vm)
<1>1. /\ MinMemory \in Nat /\ NodeMaxMemory \in Nat /\ MinMemory <= NodeMaxMemory
      /\ MiB \in Nat \ {0} /\ GiB \in Nat \ {0}
    BY OverviewDialogsAssumption
<1>2. ASSUME NEW kib \in Enterable(MinMemory, f.maxMemory, f.unit),
             v = EnterMemory(f, kib, wasRunning)
      PROVE  v \in MemoryValues /\ Legal(v, vm)
    <2>1. kib \in Nat /\ kib <= f.maxMemory
        BY <1>1, EnteredIsWithinBounds DEF MemoryValues, Units
    <2>2. v = [f EXCEPT !.memory = Greatest(kib, MinMemory)]
        BY <1>2, <2>1 DEF EnterMemory
    <2>. QED BY <1>1, <2>1, <2>2 DEF MemoryValues, Memories, Legal, Greatest
<1>3. ASSUME NEW kib \in Enterable(MinMemory, NodeMaxMemory, f.maxUnit),
             v = EnterMaxMemory(f, kib)
      PROVE  v \in MemoryValues /\ Legal(v, vm)
    <2>1. kib \in Nat /\ kib <= NodeMaxMemory
        BY <1>1, EnteredIsWithinBounds DEF MemoryValues, Units
    <2>2. /\ v.maxMemory = IF kib < NodeMaxMemory THEN Greatest(kib, MinMemory)
                                               ELSE NodeMaxMemory
          /\ v.memory = IF kib < f.memory THEN Greatest(kib, MinMemory) ELSE f.memory
        BY <1>3 DEF EnterMaxMemory, MemoryValues
    <2>3. f.memory \in Nat /\ f.maxMemory \in Nat /\ vm.memory \in Nat /\ vm.currentMemory \in Nat
        BY DEF MemoryValues, Memories
    <2>4. v.maxMemory \in Nat /\ v.memory \in Nat
        BY <1>1, <2>1, <2>2, <2>3 DEF Greatest
    <2>5. v \in MemoryValues
        BY <1>3, <2>2, <2>4 DEF EnterMaxMemory, MemoryValues
    <2>6. MinMemory <= v.maxMemory /\ v.memory <= v.maxMemory /\ v.maxMemory <= NodeMaxMemory
        BY <1>1, <2>1, <2>2, <2>3 DEF Greatest
    <2>7. MinMemory <= v.memory \/ v.memory = f.memory
        BY <1>1, <2>1, <2>2, <2>3 DEF Greatest
    <2>. QED BY <2>3, <2>5, <2>6, <2>7 DEF Legal
<1>4. ASSUME NEW u \in Units, v = [f EXCEPT !.unit = u] \/ v = [f EXCEPT !.maxUnit = u]
      PROVE  v \in MemoryValues /\ Legal(v, vm)
    <2>1. v \in MemoryValues
        BY <1>4 DEF MemoryValues
    <2>2. v.memory = f.memory /\ v.maxMemory = f.maxMemory
        BY <1>4 DEF MemoryValues
    <2>. QED BY <2>1, <2>2 DEF Legal
<1>5. \/ \E kib \in Enterable(MinMemory, f.maxMemory, f.unit) :
              v = EnterMemory(f, kib, wasRunning)
      \/ \E kib \in Enterable(MinMemory, NodeMaxMemory, f.maxUnit) : v = EnterMaxMemory(f, kib)
      \/ \E u \in Units : v = [f EXCEPT !.unit = u] \/ v = [f EXCEPT !.maxUnit = u]
    BY Zenon DEF MemoryEdits, Units
<1>. QED BY ONLY <1>2, <1>3, <1>4, <1>5

(* The machine as libvirt holds it makes a legal form when the dialog opens. *)
LEMMA MemoryFormIsLegal ==
    ASSUME NEW vm \in Memories, vm.currentMemory <= vm.memory
    PROVE  MemoryForm(vm) \in MemoryValues /\ Legal(MemoryForm(vm), vm)
BY OverviewDialogsAssumption DEF MemoryForm, MemoryValues, Memories, Legal, Units

(* The calls of a memory dialog: libvirt refuses more than the maximum, and *)
(* a lower maximum takes the memory with it.                                *)
LEMMA MemoryCallsAreLegal ==
    ASSUME subject = "memory", NEW f \in MemoryForms, NEW call \in {"setMaxMemory", "setMemory"},
           conf \in Memories, conf.currentMemory <= conf.memory, Accepts(call, f)
    PROVE  /\ After(call, f) \in Memories
           /\ After(call, f).currentMemory <= After(call, f).memory
<1>1. /\ f.values.memory \in Nat /\ f.values.maxMemory \in Nat
      /\ conf.currentMemory \in Nat /\ conf.memory \in Nat
    BY DEF MemoryForms, MemoryValues, Memories
<1>2. CASE call = "setMaxMemory"
    <2>1. After(call, f) = [memory |-> f.values.maxMemory,
                            currentMemory |-> Least(conf.currentMemory, f.values.maxMemory)]
        BY <1>2 DEF After
    <2>. QED BY <1>1, <2>1 DEF Memories, Least
<1>3. CASE call = "setMemory"
    <2>1. After(call, f) = [conf EXCEPT !.currentMemory = f.values.memory]
        BY <1>3 DEF After
    <2>2. f.values.memory <= conf.memory
        BY <1>3 DEF Accepts
    <2>. QED BY <1>1, <2>1, <2>2 DEF Memories
<1>. QED BY <1>2, <1>3

LEMMA MemoryCalls ==
    ASSUME subject = "memory", job # NoJob, ~IsDone, job.step \in Nat \ {0}
    PROVE  CurrentCall \in {"setMaxMemory", "setMemory"}
<1> DEFINE calls == MemoryPlan(job.form.values, job.form.vm).calls
<1>1. Plan(job.form) = MemoryPlan(job.form.values, job.form.vm)
    BY DEF Plan
<1>2. calls \in {<<>>, <<"setMaxMemory">>, <<"setMemory">>, <<"setMaxMemory", "setMemory">>}
    BY DEF MemoryPlan
<1>3. CurrentCall = calls[job.step] /\ ~(job.step > Len(calls))
    BY <1>1 DEF CurrentCall, IsDone
<1>. HIDE DEF calls
<1>. QED BY ONLY <1>2, <1>3, job.step \in Nat \ {0}

LEMMA MemoryInit == Init => MemoryInv
<1>. SUFFICES ASSUME Init, subject = "memory"
              PROVE  MemoryInv
    BY DEF MemoryInv
<1>1. form = NoForm /\ job = NoJob /\ conf.currentMemory <= conf.memory
    BY DEF Init, IsConf
<1>2. conf \in Memories
    BY OverviewDialogsAssumption DEF Init, MachineConfs, Memories
<1>. QED BY <1>1, <1>2 DEF MemoryInv

LEMMA MemoryNext == RunningIsKnown /\ MemoryInv /\ [Next]_vars => MemoryInv'
<1>. SUFFICES ASSUME RunningIsKnown, MemoryInv, [Next]_vars, subject' = "memory"
              PROVE  MemoryInv'
    BY DEF MemoryInv
<1>1. subject = "memory"
    BY DEF Next, vars, Open, Edit, VmsAreKnown, Save, Cancel, CallReturns, CallFails, Finish, StartOrStop
<1>2. /\ conf \in Memories /\ conf.currentMemory <= conf.memory
      /\ form # NoForm => form \in MemoryForms /\ Legal(form.values, form.vm)
      /\ job # NoJob => job \in [form : MemoryForms, base : Memories, step : Nat \ {0}]
    BY <1>1 DEF MemoryInv
<1>3. CASE Open
    <2>1. form' = [values |-> MemoryForm(conf), vm |-> conf, wasRunning |-> running]
        BY <1>1, <1>3 DEF Open, FormOf
    <2>2. form' \in MemoryForms /\ Legal(form'.values, form'.vm)
        BY <1>2, <2>1, MemoryFormIsLegal DEF MemoryForms, RunningIsKnown
    <2>. QED BY <1>2, <1>3, <2>2 DEF Open, MemoryInv
<1>4. CASE Edit
    <2>1. PICK v \in MemoryEdits(form.values, form.vm, form.wasRunning) :
              form' = [form EXCEPT !.values = v]
        BY <1>1, <1>4 DEF Edit, Edits
    <2>2. form # NoForm /\ form \in MemoryForms /\ Legal(form.values, form.vm)
        BY <1>2, <1>4 DEF Edit
    <2>3. v \in MemoryValues /\ Legal(v, form.vm)
        BY <2>2, MemoryEditsAreLegal DEF MemoryForms
    <2>4. form' \in MemoryForms /\ form'.values = v /\ form'.vm = form.vm
        BY <2>1, <2>2, <2>3 DEF MemoryForms
    <2>. QED BY <1>2, <1>4, <2>3, <2>4 DEF Edit, MemoryInv
<1>5. CASE VmsAreKnown
    BY <1>1, <1>5 DEF VmsAreKnown
<1>6. CASE Save
    <2>1. form \in MemoryForms
        BY <1>2, <1>6 DEF Save
    <2>2. job' \in [form : MemoryForms, base : Memories, step : Nat \ {0}]
        BY <1>2, <1>6, <2>1 DEF Save
    <2>. QED BY <1>2, <1>6, <2>2 DEF Save, MemoryInv
<1>7. CASE Cancel
    BY <1>2, <1>7 DEF Cancel, MemoryInv
<1>8. CASE CallReturns
    <2>1. job \in [form : MemoryForms, base : Memories, step : Nat \ {0}]
        BY <1>2, <1>8 DEF CallReturns
    <2>2. CurrentCall \in {"setMaxMemory", "setMemory"}
        BY <1>1, <1>8, <2>1, MemoryCalls DEF CallReturns
    <2>3. conf' \in Memories /\ conf'.currentMemory <= conf'.memory
        BY <1>1, <1>2, <1>8, <2>1, <2>2, MemoryCallsAreLegal DEF CallReturns
    <2>4. job' \in [form : MemoryForms, base : Memories, step : Nat \ {0}]
        BY <1>8, <2>1 DEF CallReturns
    <2>. QED BY <1>2, <1>8, <2>3, <2>4 DEF CallReturns, MemoryInv
<1>9. CASE CallFails
    BY <1>2, <1>9 DEF CallFails, MemoryInv
<1>10. CASE Finish
    <2>1. form' # NoForm => form' = form
        BY <1>10 DEF Finish
    <2>. QED BY <1>2, <1>10, <2>1 DEF Finish, MemoryInv
<1>11. CASE StartOrStop
    BY <1>2, <1>11 DEF StartOrStop, MemoryInv
<1>12. CASE UNCHANGED vars
    BY <1>2, <1>12 DEF vars, MemoryInv
<1>. QED BY <1>3, <1>4, <1>5, <1>6, <1>7, <1>8, <1>9, <1>10, <1>11, <1>12 DEF Next

LEMMA RunningStaysKnown ==
    ASSUME RunningIsKnown, [Next]_vars
    PROVE  RunningIsKnown'
BY DEF RunningIsKnown, Next, vars, Open, Edit, VmsAreKnown, Save, Cancel, CallReturns, CallFails,
       Finish, StartOrStop

(* What the memory dialog shows is legal: memoryModal.tsx keeps the two     *)
(* linked fields in order, whatever the units and whatever is typed, and    *)
(* whatever the saves before did to the machine.                            *)
THEOREM MemoryStaysLegal == Spec => []MemoryIsLegal
<1>1. Init => RunningIsKnown
    BY DEF Init, RunningIsKnown
<1>2. MemoryInv => MemoryIsLegal
    BY DEF MemoryInv, MemoryIsLegal, Legal
<1>. QED BY <1>1, <1>2, MemoryInit, MemoryNext, RunningStaysKnown, PTL DEF Spec
-----------------------------------------------------------------------------
(* The processor dialog *)

LEMMA LeastExists ==
    ASSUME NEW S, S \subseteq Nat, S # {}
    PROVE  \E x \in S : \A y \in S : x <= y
<1>1. PICK x \in S : \A y \in S : <<y, x>> \notin OpToRel(<, Nat)
    BY NatLessThanWellFounded, WFMin, Zenon
<1>2. \A y \in S : ~(y < x)
    BY <1>1, Zenon DEF OpToRel
<1>. QED BY <1>2

LEMMA GreatestExists ==
    ASSUME NEW n \in Nat, NEW S, S \subseteq 0 .. n, S # {}
    PROVE  \E x \in S : \A y \in S : y <= x
<1> DEFINE T == {k \in Nat : k <= n /\ n - k \in S}
<1>1. T \subseteq Nat /\ T # {}
    <2>1. PICK x \in S : TRUE
        OBVIOUS
    <2>2. n - x \in T
        BY <2>1
    <2>. QED BY <2>2
<1>2. PICK k \in T : \A j \in T : k <= j
    BY <1>1, LeastExists
<1>3. ASSUME NEW y \in S PROVE y <= n - k
    <2>1. y \in Nat /\ n - y \in T
        OBVIOUS
    <2>2. k <= n - y
        BY <1>2, <2>1
    <2>. QED BY <2>1, <2>2
<1>. QED BY <1>2, <1>3

(* What is offered divides, without a rest. *)
LEMMA DividersDivide ==
    ASSUME NEW n \in Nat, NEW d \in dividers(n)
    PROVE  d \in Nat \ {0} /\ n \div d \in Nat /\ d * (n \div d) = n
<1>1. d = 1 \/ (d \in 2 .. n /\ n % d = 0)
    BY DEF dividers
<1>2. d \in Nat \ {0} /\ n % d = 0
    BY <1>1
<1>. QED BY <1>2, WholeQuotient

LEMMA KeepsToDividers ==
    ASSUME NEW n \in Nat, NEW v
    PROVE  LargestOf(dividers(n)) \in dividers(n) /\ KeepOr(v, dividers(n)) \in dividers(n)
<1> DEFINE bound == n + 1
<1>1. dividers(n) \subseteq 0 .. bound /\ dividers(n) # {} /\ bound \in Nat
    BY DEF dividers
<1>2. \E d \in dividers(n) : \A e \in dividers(n) : e <= d
    BY <1>1, GreatestExists
<1>3. LargestOf(dividers(n)) \in dividers(n)
    BY <1>2, Zenon DEF LargestOf
<1>. QED BY <1>3, Zenon DEF KeepOr

(* A divider, a divider of what is left and the rest make up the whole. *)
LEMMA ThreeFactors ==
    ASSUME NEW n \in Nat, NEW a \in dividers(n), NEW b \in dividers(n \div a)
    PROVE  /\ a \in Nat \ {0} /\ b \in Nat \ {0}
           /\ n \div (a * b) \in Nat /\ n \div (b * a) \in Nat
           /\ a * b * (n \div (a * b)) = n /\ a * b * (n \div (b * a)) = n
<1> DEFINE rest == n \div a
           q == rest \div b
<1>1. a \in Nat \ {0} /\ rest \in Nat /\ a * rest = n
    BY DividersDivide
<1>2. b \in Nat \ {0} /\ q \in Nat /\ b * q = rest
    BY <1>1, DividersDivide
<1>. HIDE DEF rest, q
<1>3. a * b \in Nat \ {0} /\ (a * b) * q = n /\ b * a = a * b
    BY <1>1, <1>2
<1>4. n \div (a * b) = q
    BY <1>2, <1>3, ExactQuotient
<1>. QED BY <1>1, <1>2, <1>3, <1>4

LEMMA MaxChangeFits ==
    ASSUME NEW f \in Processors, NEW vm \in Processors, NEW v \in Nat
    PROVE  onMaxChange(f, vm, v) \in Processors /\ Fits(onMaxChange(f, vm, v))
<1> DEFINE m == clamp(v, MaxVcpu, 1)
           s == IF vm.sockets = f.sockets THEN LargestOf(dividers(m))
                                          ELSE KeepOr(f.sockets, dividers(m))
           c == KeepOr(f.cores, dividers(m \div s))
           t == m \div (c * s)
           g == onMaxChange(f, vm, v)
<1>1. m \in Nat
    BY OverviewDialogsAssumption DEF clamp
<1>2. g = [max |-> m, count |-> IF m < f.count THEN m ELSE f.count,
           sockets |-> s, cores |-> c, threads |-> t]
    BY DEF onMaxChange
<1>. HIDE DEF m, g
<1>3. s \in dividers(m)
    BY <1>1, KeepsToDividers
<1>. HIDE DEF s
<1>4. c \in dividers(m \div s)
    BY <1>1, <1>3, DividersDivide, KeepsToDividers
<1>. HIDE DEF c
<1>5. s \in Nat \ {0} /\ c \in Nat \ {0} /\ t \in Nat /\ s * c * t = m
    BY <1>1, <1>3, <1>4, ThreeFactors
<1>. HIDE DEF t
<1>6. g \in Processors
    BY <1>1, <1>2, <1>5 DEF Processors
<1>7. g.sockets = s /\ g.cores = c /\ g.threads = t /\ g.max = m
    BY <1>2
<1>8. g \in Processors /\ Fits(g)
    BY <1>5, <1>6, <1>7 DEF Fits
<1>. QED BY <1>8 DEF g

(* The three fields of the topology: one is chosen among the dividers of   *)
(* the maximum, one keeps to what is left, and the third is the rest.      *)
LEMMA TopologyChangeFits ==
    ASSUME NEW f \in Processors, NEW v \in dividers(f.max)
    PROVE  /\ onSocketChange(f, v) \in Processors /\ Fits(onSocketChange(f, v))
           /\ onThreadsChange(f, v) \in Processors /\ Fits(onThreadsChange(f, v))
           /\ onCoresChange(f, v) \in Processors /\ Fits(onCoresChange(f, v))
<1> DEFINE n == f.max
           c == KeepOr(f.cores, dividers(n \div v))
           s == KeepOr(f.sockets, dividers(n \div v))
<1>1. n \in Nat /\ n \div v \in Nat
    BY DividersDivide DEF Processors
<1>2. c \in dividers(n \div v) /\ s \in dividers(n \div v)
    BY <1>1, KeepsToDividers
<1>3. ASSUME NEW b \in dividers(n \div v)
      PROVE  /\ v \in Nat \ {0} /\ b \in Nat \ {0}
             /\ n \div (v * b) \in Nat /\ v * b * (n \div (v * b)) = n
             /\ n \div (b * v) \in Nat /\ v * b * (n \div (b * v)) = n
    BY <1>1, ThreeFactors
<1>4. onSocketChange(f, v) \in Processors /\ Fits(onSocketChange(f, v))
    <2> DEFINE g == onSocketChange(f, v)
               t == n \div (v * c)
    <2>1. g = [f EXCEPT !.sockets = v, !.cores = c, !.threads = t]
        BY DEF onSocketChange
    <2>2. v \in Nat /\ c \in Nat /\ t \in Nat /\ v * c * t = n
        BY <1>2, <1>3
    <2>. HIDE DEF g, t, c, s
    <2>3. g \in Processors
        BY <2>1, <2>2 DEF Processors
    <2>4. g.sockets = v /\ g.cores = c /\ g.threads = t /\ g.max = n
        BY <2>1 DEF Processors
    <2>5. Fits(g)
        BY <2>2, <2>4 DEF Fits
    <2>. QED BY <2>3, <2>5 DEF g
<1>5. onThreadsChange(f, v) \in Processors /\ Fits(onThreadsChange(f, v))
    <2> DEFINE g == onThreadsChange(f, v)
               q == n \div (s * v)
    <2>1. g = [f EXCEPT !.sockets = s, !.threads = v, !.cores = q]
        BY DEF onThreadsChange
    <2>2. v \in Nat /\ s \in Nat /\ q \in Nat /\ v * s * q = n
        BY <1>2, <1>3
    <2>. HIDE DEF g, q, c, s
    <2>3. g \in Processors
        BY <2>1, <2>2 DEF Processors
    <2>4. g.sockets = s /\ g.cores = q /\ g.threads = v /\ g.max = n
        BY <2>1 DEF Processors
    <2>5. s * q * v = n
        BY <2>2
    <2>6. Fits(g)
        BY <2>4, <2>5 DEF Fits
    <2>. QED BY <2>3, <2>6 DEF g
<1>6. onCoresChange(f, v) \in Processors /\ Fits(onCoresChange(f, v))
    <2> DEFINE g == onCoresChange(f, v)
               t == n \div (s * v)
    <2>1. g = [f EXCEPT !.sockets = s, !.cores = v, !.threads = t]
        BY DEF onCoresChange
    <2>2. v \in Nat /\ s \in Nat /\ t \in Nat /\ v * s * t = n
        BY <1>2, <1>3
    <2>. HIDE DEF g, t, c, s
    <2>3. g \in Processors
        BY <2>1, <2>2 DEF Processors
    <2>4. g.sockets = s /\ g.cores = v /\ g.threads = t /\ g.max = n
        BY <2>1 DEF Processors
    <2>5. s * v * t = n
        BY <2>2
    <2>6. Fits(g)
        BY <2>4, <2>5 DEF Fits
    <2>. QED BY <2>3, <2>6 DEF g
<1>. QED BY <1>4, <1>5, <1>6

LEMMA CpuEditsFit ==
    ASSUME NEW f \in Processors, NEW vm \in Processors, Fits(f), NEW v \in CpuEdits(f, vm)
    PROVE  v \in Processors /\ Fits(v)
<1>1. CASE \E n \in 0 .. MaxVcpu + 1 : v = onMaxChange(f, vm, n)
    BY <1>1, MaxChangeFits
<1>2. CASE v = onMaxEmpty(f)
    BY <1>2 DEF onMaxEmpty, Processors, Fits
<1>3. CASE v = onCountEmpty(f) \/ \E n \in {1, MaxVcpu + 1} : v = onCountSelect(f, n)
    <2>1. PICK n \in Nat : v = [f EXCEPT !.count = n]
        BY <1>3, OverviewDialogsAssumption DEF onCountEmpty, onCountSelect, clamp, Processors
    <2>2. v \in Processors
        BY <2>1 DEF Processors
    <2>3. v.sockets = f.sockets /\ v.cores = f.cores /\ v.threads = f.threads /\ v.max = f.max
        BY <2>1 DEF Processors
    <2>. QED BY <2>2, <2>3 DEF Fits
<1>4. CASE \E n \in dividers(f.max) :
               v \in {onSocketChange(f, n), onThreadsChange(f, n), onCoresChange(f, n)}
    BY <1>4, TopologyChangeFits
<1>. QED BY <1>1, <1>2, <1>3, <1>4, Zenon DEF CpuEdits

(* virt-xml first resets the topology to cores only, then sets the new one, *)
(* which libvirt admits only if it fits.                                    *)
LEMMA CpuCallsFit ==
    ASSUME subject = "cpu", job # NoJob, ~IsDone, conf \in Processors, Fits(conf),
           job \in [form : CpuForms, base : Processors, step : Nat \ {0}],
           Accepts(CurrentCall, job.form)
    PROVE  After(CurrentCall, job.form) \in Processors /\ Fits(After(CurrentCall, job.form))
<1> DEFINE f == job.form
<1>1. f \in CpuForms
    OBVIOUS
<1>2. CurrentCall \in {"cpu", "vcpu"}
    <2>1. Plan(f) = [calls |-> <<"cpu", "vcpu">>, closes |-> TRUE]
        BY DEF Plan
    <2>2. CurrentCall = <<"cpu", "vcpu">>[job.step] /\ ~(job.step > 2)
        BY <2>1 DEF CurrentCall, IsDone
    <2>. QED BY <2>2
<1>3. CASE CurrentCall = "cpu"
    <2>1. After(CurrentCall, f) = [conf EXCEPT !.sockets = 1, !.threads = 1, !.cores = conf.max]
        BY <1>3 DEF After
    <2> DEFINE after == [conf EXCEPT !.sockets = 1, !.threads = 1, !.cores = conf.max]
    <2>2. after \in Processors
        BY DEF Processors
    <2>3. after.sockets = 1 /\ after.cores = conf.max /\ after.threads = 1 /\ after.max = conf.max
        BY DEF Processors
    <2>4. conf.max \in Nat
        BY DEF Processors
    <2>. QED BY <2>1, <2>2, <2>3, <2>4 DEF Fits
<1>4. CASE CurrentCall = "vcpu"
    <2>1. After(CurrentCall, f) = f.values
        BY <1>4 DEF After
    <2>2. f.values \in Processors /\ f.values.sockets * f.values.cores * f.values.threads = f.values.max
        BY <1>1, <1>4 DEF CpuForms, Accepts
    <2>. QED BY <2>1, <2>2 DEF Fits
<1>. QED BY <1>2, <1>3, <1>4

LEMMA CpuInit == Init => CpuInv
<1>. SUFFICES ASSUME Init, subject = "cpu"
              PROVE  CpuInv
    BY DEF CpuInv
<1>1. form = NoForm /\ job = NoJob
    BY DEF Init
<1>2. conf \in MachineConfs("cpu") /\ conf.sockets * conf.cores * conf.threads = conf.max
    BY DEF Init, IsConf
<1>3. conf \in Processors
    BY <1>2, OverviewDialogsAssumption DEF MachineConfs, Processors
<1>. QED BY <1>1, <1>2, <1>3 DEF CpuInv, Fits

LEMMA CpuNext == RunningIsKnown /\ CpuInv /\ [Next]_vars => CpuInv'
<1>. SUFFICES ASSUME RunningIsKnown, CpuInv, [Next]_vars, subject' = "cpu"
              PROVE  CpuInv'
    BY DEF CpuInv
<1>1. subject = "cpu"
    BY DEF Next, vars, Open, Edit, VmsAreKnown, Save, Cancel, CallReturns, CallFails, Finish, StartOrStop
<1>2. /\ conf \in Processors /\ Fits(conf)
      /\ form # NoForm => form \in CpuForms /\ Fits(form.values)
      /\ job # NoJob => job \in [form : CpuForms, base : Processors, step : Nat \ {0}]
    BY <1>1 DEF CpuInv
<1>3. SUFFICES /\ conf' \in Processors /\ Fits(conf')
               /\ form' # NoForm => form' \in CpuForms /\ Fits(form'.values)
               /\ job' # NoJob => job' \in [form : CpuForms, base : Processors, step : Nat \ {0}]
    BY <1>3 DEF CpuInv, Fits
<1>4. CASE Open
    <2>1. form' = [values |-> conf, vm |-> conf, wasRunning |-> running]
        BY <1>1, <1>4 DEF Open, FormOf, CpuForm
    <2>2. form' \in CpuForms /\ form'.values = conf
        BY <1>2, <2>1 DEF CpuForms, RunningIsKnown
    <2>. QED BY <1>2, <1>4, <2>2 DEF Open
<1>5. CASE Edit
    <2>1. PICK v \in CpuEdits(form.values, form.vm) : form' = [form EXCEPT !.values = v]
        BY <1>1, <1>5 DEF Edit, Edits
    <2>2. form \in CpuForms /\ Fits(form.values)
        BY <1>2, <1>5 DEF Edit
    <2>3. v \in Processors /\ Fits(v)
        BY <2>2, CpuEditsFit DEF CpuForms
    <2>4. form' \in CpuForms /\ form'.values = v
        BY <2>1, <2>2, <2>3 DEF CpuForms
    <2>. QED BY <1>2, <1>5, <2>3, <2>4 DEF Edit
<1>6. CASE VmsAreKnown
    BY <1>1, <1>6 DEF VmsAreKnown
<1>7. CASE Save
    <2>1. form \in CpuForms
        BY <1>2, <1>7 DEF Save
    <2>2. job' \in [form : CpuForms, base : Processors, step : Nat \ {0}]
        BY <1>2, <1>7, <2>1 DEF Save
    <2>. QED BY <1>2, <1>7, <2>2 DEF Save
<1>8. CASE Cancel
    BY <1>2, <1>8 DEF Cancel
<1>9. CASE CallReturns
    <2>1. job \in [form : CpuForms, base : Processors, step : Nat \ {0}]
        BY <1>2, <1>9 DEF CallReturns
    <2>2. conf' \in Processors /\ Fits(conf')
        BY <1>1, <1>2, <1>9, <2>1, CpuCallsFit DEF CallReturns
    <2>3. job' \in [form : CpuForms, base : Processors, step : Nat \ {0}]
        BY <1>9, <2>1 DEF CallReturns
    <2>. QED BY <1>2, <1>9, <2>2, <2>3 DEF CallReturns
<1>10. CASE CallFails
    BY <1>2, <1>10 DEF CallFails
<1>11. CASE Finish
    <2>1. form' # NoForm => form' = form
        BY <1>11 DEF Finish
    <2>. QED BY <1>2, <1>11, <2>1 DEF Finish
<1>12. CASE StartOrStop
    BY <1>1, <1>12 DEF StartOrStop
<1>13. CASE UNCHANGED vars
    BY <1>2, <1>13 DEF vars
<1>. QED BY <1>4, <1>5, <1>6, <1>7, <1>8, <1>9, <1>10, <1>11, <1>12, <1>13 DEF Next

(* cpuModal.tsx: the four linked fields agree, after any sequence of        *)
(* changes, and whatever a save that failed halfway left in the machine.    *)
THEOREM TopologyAlwaysMatches == Spec => []TopologyMatches
<1>1. Init => RunningIsKnown
    BY DEF Init, RunningIsKnown
<1>2. CpuInv => TopologyMatches
    BY DEF CpuInv, TopologyMatches, Fits
<1>. QED BY <1>1, <1>2, CpuInit, CpuNext, RunningStaysKnown, PTL DEF Spec
-----------------------------------------------------------------------------
(* Vsock identifiers *)

(* The place of a number in a set: how many of the set come before it. *)
Rank(S, n) == Cardinality({m \in S : m < n})

LEMMA BoundedIsFinite ==
    ASSUME NEW b \in Nat, NEW S, S \subseteq 0 .. b
    PROVE  IsFiniteSet(S) /\ Cardinality(S) \in Nat
<1>1. IsFiniteSet(0 .. b)
    BY FS_Interval
<1>. QED BY <1>1, FS_Subset, FS_CardinalityType

LEMMA RankGrows ==
    ASSUME NEW b \in Nat, NEW S, S \subseteq 0 .. b, NEW x \in S, NEW y \in S, x < y
    PROVE  Rank(S, x) < Rank(S, y)
<1> DEFINE A == {m \in S : m < x}
           B == {m \in S : m < y}
<1>1. A \subseteq B /\ x \in B /\ x \notin A /\ B \subseteq 0 .. b /\ A \subseteq 0 .. b
    <2>1. \A m \in S : m \in Int /\ (m < x => m < y)
        OBVIOUS
    <2>2. A \subseteq B /\ B \subseteq S
        BY <2>1
    <2>3. x \in B /\ x \notin A
        OBVIOUS
    <2>. HIDE DEF A, B
    <2>. QED BY <2>2, <2>3
<1>. HIDE DEF A, B
<1>2. IsFiniteSet(B) /\ Cardinality(B) \in Nat /\ Cardinality(A) \in Nat
    BY <1>1, BoundedIsFinite
<1>3. Cardinality(A) <= Cardinality(B) /\ Cardinality(A) # Cardinality(B)
    BY <1>1, <1>2, FS_Subset
<1>4. Cardinality(A) < Cardinality(B)
    BY <1>2, <1>3
<1>. QED BY <1>4 DEF Rank, A, B

LEMMA RankIsPlace ==
    ASSUME NEW b \in Nat, NEW S, S \subseteq 0 .. b, NEW x \in S
    PROVE  Rank(S, x) \in 0 .. Cardinality(S) - 1
<1> DEFINE A == {m \in S : m < x}
<1>1. A \subseteq S /\ A # S
    <2>1. x \notin A
        OBVIOUS
    <2>. QED BY <2>1
<1>2. IsFiniteSet(S) /\ Cardinality(S) \in Nat
    BY BoundedIsFinite
<1>. HIDE DEF A
<1>3. Cardinality(A) \in Nat /\ Cardinality(A) <= Cardinality(S) /\ Cardinality(A) # Cardinality(S)
    BY <1>1, <1>2, FS_Subset, FS_CardinalityType
<1>4. Cardinality(A) \in 0 .. Cardinality(S) - 1
    BY <1>2, <1>3
<1>. QED BY <1>4 DEF Rank, A

LEMMA RankIsUnique ==
    ASSUME NEW b \in Nat, NEW S, S \subseteq 0 .. b, NEW x \in S, NEW y \in S,
           Rank(S, x) = Rank(S, y)
    PROVE  x = y
<1>1. Rank(S, x) \in Int
    <2>1. Rank(S, x) \in 0 .. Cardinality(S) - 1
        BY RankIsPlace
    <2>. QED BY <2>1
<1>2. ~(x < y)
    <2>1. SUFFICES ASSUME x < y PROVE FALSE
        OBVIOUS
    <2>2. Rank(S, x) < Rank(S, y)
        BY <2>1, RankGrows
    <2>. QED BY <1>1, <2>2
<1>3. ~(y < x)
    <2>1. SUFFICES ASSUME y < x PROVE FALSE
        OBVIOUS
    <2>2. Rank(S, y) < Rank(S, x)
        BY <2>1, RankGrows
    <2>. QED BY <1>1, <2>2
<1>. QED BY <1>2, <1>3

(* Every place is taken. *)
LEMMA PlacesAreTaken ==
    ASSUME NEW b \in Nat, NEW S, S \subseteq 0 .. b, NEW r \in 0 .. Cardinality(S) - 1
    PROVE  \E x \in S : Rank(S, x) = r
<1> DEFINE n == Cardinality(S)
           T == 0 .. n - 1
           f == [x \in S |-> Rank(S, x)]
<1>1. IsFiniteSet(S) /\ n \in Nat
    BY BoundedIsFinite
<1>2. IsFiniteSet(T) /\ Cardinality(T) = n
    BY <1>1, FS_Interval
<1>3. f \in [S -> T]
    BY RankIsPlace
<1>4. \A x \in S : \A y \in S : f[x] = f[y] => x = y
    BY RankIsUnique
<1>. HIDE DEF f, T, n
<1>5. f \in Injection(S, T)
    BY <1>3, <1>4 DEF Injection, IsInjective
<1>6. n = Cardinality(S)
    BY DEF n
<1>7. f \in Surjection(S, T)
    BY <1>1, <1>2, <1>5, <1>6, FS_Injection
<1>8. r \in T
    BY DEF T, n
<1>9. \E x \in S : f[x] = r
    BY <1>7, <1>8 DEF Surjection
<1>. QED BY <1>9 DEF f

(* One digit: the order of the texts is the order of the numbers. *)
LEMMA TextRankOfDigits ==
    ASSUME NEW S, S \subseteq 0 .. 9, NEW n \in S
    PROVE  Cardinality({m \in S : TextRank(m) < TextRank(n)}) = Rank(S, n)
<1>1. ASSUME NEW m \in S PROVE TextRank(m) < TextRank(n) <=> m < n
    <2>1. m \in 0 .. 9 /\ n \in 0 .. 9
        OBVIOUS
    <2>. QED BY <2>1 DEF TextRank
<1>2. {m \in S : TextRank(m) < TextRank(n)} = {m \in S : m < n}
    BY <1>1
<1>. QED BY <1>2 DEF Rank

(* What the sorted list holds: all the identifiers, the least one first. *)
LEMMA SortedHolds ==
    ASSUME NEW S, S \subseteq 0 .. 9
    PROVE  /\ Len(SortedAsText(S)) = Cardinality(S)
           /\ Cardinality(S) \in Nat
           /\ \A i \in 1 .. Cardinality(S) :
                SortedAsText(S)[i] \in S /\ Rank(S, SortedAsText(S)[i]) = i - 1
           /\ \A x \in S : \E i \in 1 .. Cardinality(S) : SortedAsText(S)[i] = x
<1> DEFINE n == Cardinality(S)
           t == SortedAsText(S)
<1> DEFINE last == 9
<1>. HIDE DEF last
<1>0. last \in Nat /\ S \subseteq 0 .. last
    BY DEF last
<1>1. n \in Nat
    BY <1>0, BoundedIsFinite
<1>2. ASSUME NEW i \in 1 .. n
      PROVE  t[i] = CHOOSE x \in S : Rank(S, x) = i - 1
    <2>1. \A x \in S : Cardinality({m \in S : TextRank(m) < TextRank(x)}) = i - 1 <=> Rank(S, x) = i - 1
        BY TextRankOfDigits
    <2>2. (CHOOSE x \in S : Cardinality({m \in S : TextRank(m) < TextRank(x)}) = i - 1)
            = CHOOSE x \in S : Rank(S, x) = i - 1
        BY <2>1
    <2>. QED BY <2>2 DEF SortedAsText
<1>3. ASSUME NEW i \in 1 .. n PROVE t[i] \in S /\ Rank(S, t[i]) = i - 1
    <2>1. i - 1 \in 0 .. n - 1
        BY <1>1
    <2>2. \E x \in S : Rank(S, x) = i - 1
        BY <1>0, <2>1, PlacesAreTaken
    <2>3. t[i] = CHOOSE x \in S : Rank(S, x) = i - 1
        BY <1>2
    <2>. QED BY <2>2, <2>3
<1>4. Len(t) = n
    BY <1>1 DEF SortedAsText
<1>5. ASSUME NEW x \in S PROVE \E i \in 1 .. n : t[i] = x
    <2>1. Rank(S, x) \in 0 .. n - 1
        BY <1>0, RankIsPlace
    <2>. DEFINE i == Rank(S, x) + 1
    <2>2. i \in 1 .. n /\ i - 1 = Rank(S, x)
        BY <1>1, <2>1
    <2>3. t[i] \in S /\ Rank(S, t[i]) = Rank(S, x)
        BY <1>3, <2>2
    <2>4. t[i] = x
        BY <1>0, <2>3, RankIsUnique
    <2>. QED BY <2>2, <2>4
<1>. QED BY <1>1, <1>3, <1>4, <1>5

(* The list that the loop runs over, and the loop as a function of where it *)
(* is and of the identifier it tries.                                       *)
Places(S) == 1 .. Greatest(Cardinality(S), 1) + 1

IsScan(g, S) ==
    g = [at \in Places(S) \X Nat |->
            IF at[1] > Len(SortedAsText(S)) THEN at[2]
            ELSE IF SortedAsText(S)[at[1]] = at[2] THEN g[<<2, at[2] + 1>>]
            ELSE g[<<at[1] + 1, at[2]>>]]

(* What the loop comes to: the identifier it tries, unless that is in the rest *)
(* of the list; then the next one that is not in the list but for its head.    *)
Ahead(S, i, a) == \E j \in i .. Cardinality(S) : SortedAsText(S)[j] = a
Untaken(S, b) == {c \in Nat : b <= c /\ ~Ahead(S, 2, c)}
NextUntaken(S, b) == CHOOSE c \in Untaken(S, b) : \A d \in Untaken(S, b) : c <= d
ComesTo(S, i, a) == IF Ahead(S, i, a) THEN NextUntaken(S, a + 1) ELSE a

LEMMA NextUntakenExists ==
    ASSUME NEW S, S \subseteq 0 .. 9, NEW b \in Nat
    PROVE  /\ NextUntaken(S, b) \in Nat /\ b <= NextUntaken(S, b)
           /\ ~Ahead(S, 2, NextUntaken(S, b))
           /\ \A d \in Untaken(S, b) : NextUntaken(S, b) <= d
<1>1. b + 10 \in Untaken(S, b)
    <2>1. SUFFICES ASSUME Ahead(S, 2, b + 10) PROVE FALSE
        BY DEF Untaken
    <2>2. PICK j \in 2 .. Cardinality(S) : SortedAsText(S)[j] = b + 10
        BY <2>1 DEF Ahead
    <2>3. j \in 1 .. Cardinality(S)
        BY SortedHolds
    <2>4. b + 10 \in 0 .. 9
        BY <2>2, <2>3, SortedHolds
    <2>. QED BY <2>4
<1>2. Untaken(S, b) \subseteq Nat /\ Untaken(S, b) # {}
    BY <1>1 DEF Untaken
<1>3. \E c \in Untaken(S, b) : \A d \in Untaken(S, b) : c <= d
    BY <1>2, LeastExists
<1>4. NextUntaken(S, b) \in Untaken(S, b) /\ \A d \in Untaken(S, b) : NextUntaken(S, b) <= d
    BY <1>3, Zenon DEF NextUntaken
<1>. QED BY <1>4 DEF Untaken

LEMMA NextUntakenSteps ==
    ASSUME NEW S, S \subseteq 0 .. 9, NEW b \in Nat
    PROVE  NextUntaken(S, b) = ComesTo(S, 2, b)
<1>1. CASE Ahead(S, 2, b)
    <2>1. Untaken(S, b) = Untaken(S, b + 1)
        <3>1. ASSUME NEW c \in Untaken(S, b) PROVE c \in Untaken(S, b + 1)
            <4>1. c \in Nat /\ b <= c /\ ~Ahead(S, 2, c)
                BY DEF Untaken
            <4>2. c # b
                BY <4>1, <1>1
            <4>3. b + 1 <= c
                BY <4>1, <4>2
            <4>. QED BY <4>1, <4>3 DEF Untaken
        <3>2. ASSUME NEW c \in Untaken(S, b + 1) PROVE c \in Untaken(S, b)
            <4>1. c \in Nat /\ b + 1 <= c /\ ~Ahead(S, 2, c)
                BY DEF Untaken
            <4>2. b <= c
                BY <4>1
            <4>. QED BY <4>1, <4>2 DEF Untaken
        <3>. QED BY <3>1, <3>2
    <2>2. NextUntaken(S, b) = NextUntaken(S, b + 1)
        BY <2>1, Zenon DEF NextUntaken
    <2>. QED BY <1>1, <2>2, Zenon DEF ComesTo
<1>2. CASE ~Ahead(S, 2, b)
    <2>1. b \in Untaken(S, b)
        BY <1>2 DEF Untaken
    <2>2. NextUntaken(S, b) = b
        <3>1. NextUntaken(S, b) <= b
            BY <2>1, NextUntakenExists, Zenon
        <3>2. NextUntaken(S, b) \in Nat /\ b <= NextUntaken(S, b)
            BY NextUntakenExists, Zenon
        <3>. QED BY <3>1, <3>2
    <2>. QED BY <1>2, <2>2, Zenon DEF ComesTo
<1>. QED BY <1>1, <1>2

LEMMA ComesToSteps ==
    ASSUME NEW S, S \subseteq 0 .. 9, NEW i \in Places(S), NEW a \in Nat
    PROVE  /\ ComesTo(S, i, a) =
                IF i > Len(SortedAsText(S)) THEN a
                ELSE IF SortedAsText(S)[i] = a THEN ComesTo(S, 2, a + 1)
                ELSE ComesTo(S, i + 1, a)
           /\ 2 \in Places(S)
           /\ i <= Len(SortedAsText(S)) => i + 1 \in Places(S)
<1> DEFINE n == Cardinality(S)
           t == SortedAsText(S)
<1>1. n \in Nat /\ Len(t) = n /\ i \in Nat /\ 1 <= i
    <2>1. n \in Nat /\ Len(t) = n
        BY SortedHolds
    <2>2. i \in 1 .. Greatest(n, 1) + 1
        BY DEF Places
    <2>. QED BY <2>1, <2>2
<1>2. 2 \in Places(S) /\ (i <= n => i + 1 \in Places(S))
    BY <1>1 DEF Places, Greatest
<1>3. CASE i > n
    <2>1. ~Ahead(S, i, a)
        BY <1>1, <1>3 DEF Ahead
    <2>. QED BY <1>1, <1>2, <1>3, <2>1 DEF ComesTo
<1>4. CASE i <= n /\ t[i] = a
    <2>1. Ahead(S, i, a)
        BY <1>1, <1>4 DEF Ahead
    <2>2. ComesTo(S, i, a) = ComesTo(S, 2, a + 1)
        <3>1. a + 1 \in Nat
            OBVIOUS
        <3>2. NextUntaken(S, a + 1) = ComesTo(S, 2, a + 1)
            BY <3>1, NextUntakenSteps
        <3>3. ComesTo(S, i, a) = NextUntaken(S, a + 1)
            BY <2>1, Zenon DEF ComesTo
        <3>. QED BY <3>2, <3>3
    <2>. QED BY <1>1, <1>2, <1>4, <2>2
<1>5. CASE i <= n /\ t[i] # a
    <2>1. Ahead(S, i, a) <=> Ahead(S, i + 1, a)
        <3>1. ASSUME NEW j \in i .. n, t[j] = a PROVE j \in i + 1 .. n
            <4>1. j # i
                BY <1>5, <3>1
            <4>. QED BY <1>1, <4>1
        <3>2. \A j \in i + 1 .. n : j \in i .. n
            BY <1>1
        <3>. QED BY <3>1, <3>2 DEF Ahead
    <2>2. ComesTo(S, i, a) = ComesTo(S, i + 1, a)
        BY <2>1, Zenon DEF ComesTo
    <2>. QED BY <1>1, <1>2, <1>5, <2>2
<1>. QED BY <1>1, <1>3, <1>4, <1>5

(* A solution of the loop's equation is what the loop comes to: were there a  *)
(* last identifier at which it is not, the loop would be wrong after a hit.   *)
LEMMA ScanExists ==
    ASSUME NEW S, S \subseteq 0 .. 9
    PROVE  \E g : IsScan(g, S)
<1> DEFINE g == [at \in Places(S) \X Nat |-> ComesTo(S, at[1], at[2])]
           t == SortedAsText(S)
<1>1. ASSUME NEW at \in Places(S) \X Nat
      PROVE  g[at] = IF at[1] > Len(t) THEN at[2]
                     ELSE IF t[at[1]] = at[2] THEN g[<<2, at[2] + 1>>]
                     ELSE g[<<at[1] + 1, at[2]>>]
    <2>. DEFINE i == at[1]
                a == at[2]
    <2>1. i \in Places(S) /\ a \in Nat /\ g[at] = ComesTo(S, i, a)
        OBVIOUS
    <2>. HIDE DEF i, a
    <2>2. /\ ComesTo(S, i, a) = IF i > Len(t) THEN a
                                ELSE IF t[i] = a THEN ComesTo(S, 2, a + 1)
                                ELSE ComesTo(S, i + 1, a)
          /\ 2 \in Places(S)
          /\ i <= Len(t) => i + 1 \in Places(S)
        BY <2>1, ComesToSteps
    <2>3. g[<<2, a + 1>>] = ComesTo(S, 2, a + 1)
        BY <2>1, <2>2
    <2>4. i <= Len(t) => g[<<i + 1, a>>] = ComesTo(S, i + 1, a)
        BY <2>1, <2>2
    <2>5. Len(t) \in Nat
        BY SortedHolds
    <2>6. i \in Nat
        BY <2>1 DEF Places
    <2>. HIDE DEF g, t
    <2>7. g[at] = IF i > Len(t) THEN a
                  ELSE IF t[i] = a THEN g[<<2, a + 1>>]
                  ELSE g[<<i + 1, a>>]
        BY <2>1, <2>2, <2>3, <2>4, <2>5, <2>6
    <2>. QED BY <2>7 DEF i, a
<1>2. g = [at \in Places(S) \X Nat |->
            IF at[1] > Len(t) THEN at[2]
            ELSE IF t[at[1]] = at[2] THEN g[<<2, at[2] + 1>>]
            ELSE g[<<at[1] + 1, at[2]>>]]
    BY <1>1, Zenon
<1>3. IsScan(g, S)
    BY <1>2, Zenon DEF IsScan
<1>. QED BY <1>3

LEMMA ScanIsUnique ==
    ASSUME NEW S, S \subseteq 0 .. 9, NEW g, IsScan(g, S),
           NEW i \in Places(S), NEW a \in Nat
    PROVE  g[<<i, a>>] = ComesTo(S, i, a)
<1> DEFINE n == Cardinality(S)
           t == SortedAsText(S)
           Wrong(k, b) == g[<<k, b>>] # ComesTo(S, k, b)
           WrongPlaces(b) == {k \in Places(S) : Wrong(k, b)}
           WrongIds == {b \in 0 .. 9 : WrongPlaces(b) # {}}
<1>1. n \in Nat /\ Len(t) = n
    BY SortedHolds
<1>2. \A k \in Places(S) : k \in Nat /\ 1 <= k /\ k <= n + 2
    BY <1>1 DEF Places, Greatest
<1>3. \A k \in Places(S) : \A b \in Nat :
        g[<<k, b>>] = IF k > n THEN b ELSE IF t[k] = b THEN g[<<2, b + 1>>] ELSE g[<<k + 1, b>>]
    BY <1>1 DEF IsScan
<1>4. \A k \in Places(S) : \A b \in Nat :
        /\ ComesTo(S, k, b) =
            IF k > n THEN b ELSE IF t[k] = b THEN ComesTo(S, 2, b + 1) ELSE ComesTo(S, k + 1, b)
        /\ 2 \in Places(S)
        /\ k <= n => k + 1 \in Places(S)
    BY <1>1, ComesToSteps
<1>5. ASSUME NEW k \in Places(S), NEW b \in Nat, Wrong(k, b)
      PROVE  k <= n /\ (\/ t[k] = b /\ Wrong(2, b + 1) /\ 2 \in Places(S)
                        \/ Wrong(k + 1, b) /\ k + 1 \in Places(S))
    <2>1. ~(k > n) /\ (t[k] = b => Wrong(2, b + 1)) /\ (t[k] # b => Wrong(k + 1, b))
        BY <1>3, <1>4, <1>5
    <2>2. k <= n
        BY <1>1, <1>2, <2>1
    <2>. QED BY <1>4, <2>1, <2>2
<1>. HIDE DEF Wrong
(* A wrong identifier is hit: at the last place where it is wrong. *)
<1>6. ASSUME NEW b \in Nat, WrongPlaces(b) # {}
      PROVE  b \in 0 .. 9 /\ WrongPlaces(b + 1) # {}
    <2>. DEFINE top == n + 2
    <2>1. top \in Nat /\ WrongPlaces(b) \subseteq 0 .. top
        BY <1>1, <1>2
    <2>. HIDE DEF top
    <2>2. PICK k \in WrongPlaces(b) : \A m \in WrongPlaces(b) : m <= k
        BY <1>6, <2>1, GreatestExists
    <2>3. k \in Places(S) /\ Wrong(k, b) /\ k \in Nat
        BY <1>2
    <2>4. ~(Wrong(k + 1, b) /\ k + 1 \in Places(S))
        BY <2>2, <2>3
    <2>5. k <= n /\ t[k] = b /\ Wrong(2, b + 1) /\ 2 \in Places(S)
        BY <1>5, <2>3, <2>4
    <2>6. k \in 1 .. n
        BY <1>1, <1>2, <2>3, <2>5
    <2>7. t[k] \in S
        BY <2>6, SortedHolds
    <2>. QED BY <2>5, <2>7
<1>7. WrongIds = {}
    <2>1. SUFFICES ASSUME WrongIds # {} PROVE FALSE
        OBVIOUS
    <2>. DEFINE last == 9
    <2>2. last \in Nat /\ WrongIds \subseteq 0 .. last
        OBVIOUS
    <2>. HIDE DEF last
    <2>3. PICK b \in WrongIds : \A c \in WrongIds : c <= b
        BY <2>1, <2>2, GreatestExists
    <2>4. b \in Nat /\ b + 1 \in Nat /\ WrongPlaces(b) # {}
        OBVIOUS
    <2>5. WrongPlaces(b + 1) # {}
        BY <1>6, <2>4
    <2>6. b + 1 \in 0 .. 9
        BY <1>6, <2>4, <2>5
    <2>7. b + 1 \in WrongIds
        BY <2>5, <2>6
    <2>. QED BY <2>3, <2>4, <2>7
<1>8. ~Wrong(i, a)
    <2>1. SUFFICES ASSUME Wrong(i, a) PROVE FALSE
        OBVIOUS
    <2>2. WrongPlaces(a) # {}
        BY <2>1
    <2>. QED BY <1>6, <1>7, <2>2
<1>. QED BY <1>8 DEF Wrong

LEMMA SuggestionComesTo ==
    ASSUME NEW S, S \subseteq 0 .. 9
    PROVE  getNextAvailableVsockCID(S) = ComesTo(S, 1, MIN_VSOCK_CID)
<1> DEFINE g == CHOOSE f : IsScan(f, S)
<1>1. IsScan(g, S)
    BY ScanExists
<1>2. getNextAvailableVsockCID(S) = g[<<1, MIN_VSOCK_CID>>]
    BY DEF getNextAvailableVsockCID, IsScan, Places
<1>. HIDE DEF g
<1>3. 1 \in Places(S) /\ MIN_VSOCK_CID \in Nat
    <2>1. Cardinality(S) \in Nat
        BY SortedHolds
    <2>. QED BY <2>1 DEF Places, Greatest, MIN_VSOCK_CID
<1>. QED BY <1>1, <1>2, <1>3, ScanIsUnique

LEMMA SuggestionIsUntaken ==
    ASSUME NEW S, S \subseteq 0 .. 9
    PROVE  getNextAvailableVsockCID(S) \notin S
<1> DEFINE n == Cardinality(S)
           t == SortedAsText(S)
           c == NextUntaken(S, 4)
<1>1. n \in Nat /\ Len(t) = n
    BY SortedHolds
<1>2. getNextAvailableVsockCID(S) = IF Ahead(S, 1, 3) THEN c ELSE 3
    <2>1. getNextAvailableVsockCID(S) = ComesTo(S, 1, 3)
        BY SuggestionComesTo DEF MIN_VSOCK_CID
    <2>2. 3 + 1 = 4
        OBVIOUS
    <2>3. ComesTo(S, 1, 3) = IF Ahead(S, 1, 3) THEN NextUntaken(S, 4) ELSE 3
        BY <2>2, Zenon DEF ComesTo
    <2>. QED BY <2>1, <2>3
<1>3. \A x \in S : Ahead(S, 1, x)
    BY SortedHolds DEF Ahead
<1>4. CASE ~Ahead(S, 1, 3)
    BY <1>2, <1>3, <1>4
<1>5. CASE Ahead(S, 1, 3)
    <2>1. c \in Nat /\ 4 <= c /\ ~Ahead(S, 2, c)
        BY NextUntakenExists
    <2>2. PICK j \in 1 .. n : t[j] = 3
        BY <1>5 DEF Ahead
    <2>3. 1 \in 1 .. n /\ t[j] \in S /\ t[1] \in S
        <3>1. 1 \in 1 .. n
            BY <1>1, <2>2
        <3>. QED BY <2>2, <3>1, SortedHolds
    <2>4. Rank(S, t[1]) = 0 /\ Rank(S, t[j]) = j - 1
        <3>1. Rank(S, t[1]) = 1 - 1
            BY <2>3, SortedHolds
        <3>2. Rank(S, t[j]) = j - 1
            BY SortedHolds
        <3>. QED BY <3>1, <3>2
    <2>5. ~(3 < t[1])
        <3>1. SUFFICES ASSUME 3 < t[1] PROVE FALSE
            OBVIOUS
        <3>. DEFINE last == 9
        <3>. HIDE DEF last
        <3>2. last \in Nat /\ S \subseteq 0 .. last
            BY DEF last
        <3>3. Rank(S, t[j]) < Rank(S, t[1])
            BY <2>2, <2>3, <3>1, <3>2, RankGrows
        <3>. QED BY <2>4, <3>3
    <2>6. c # t[1]
        <3>1. t[1] \in 0 .. 9
            BY <2>3
        <3>. QED BY <2>1, <2>5, <3>1
    <2>7. c \notin S
        <3>1. SUFFICES ASSUME c \in S PROVE FALSE
            OBVIOUS
        <3>2. PICK k \in 1 .. n : t[k] = c
            BY <1>3, <3>1 DEF Ahead
        <3>3. k \in 2 .. n
            BY <1>1, <2>6, <3>2
        <3>. QED BY <2>1, <3>2, <3>3 DEF Ahead
    <2>. QED BY <1>2, <1>5, <2>7
<1>. QED BY <1>4, <1>5

LEMMA OthersStayKnown == Spec => [](used \subseteq Nat)
<1>1. Init => used \subseteq Nat
    BY OverviewDialogsAssumption, Zenon DEF Init, OverviewDialogsAssumption
<1>2. used \subseteq Nat /\ [Next]_vars => (used \subseteq Nat)'
    BY DEF Next, vars, Open, Edit, VmsAreKnown, Save, Cancel, CallReturns, CallFails, Finish,
           StartOrStop
<1>. QED BY <1>1, <1>2, PTL DEF Spec

(* The identifier that the vsock dialog suggests is one that no other machine *)
(* has, however many machines there are, as long as all identifiers have one  *)
(* digit (vsock.tsx:73-92): the loop begins again after a hit but leaves out  *)
(* the first element, which is right because that one is the least.           *)
THEOREM SuggestionIsAlwaysFree == Spec => []SuggestionIsFree
<1>1. used \subseteq Nat => SuggestionIsFree
    <2>1. SUFFICES ASSUME used \subseteq Nat, \A n \in used : n < 10
                   PROVE  getNextAvailableVsockCID(used) \notin used
        BY DEF SuggestionIsFree
    <2>2. used \subseteq 0 .. 9
        BY <2>1
    <2>. QED BY <2>2, SuggestionIsUntaken
<1>. QED BY <1>1, OthersStayKnown, PTL
-----------------------------------------------------------------------------
(* Boot order: lists of devices without repetitions, and the orders that a *)
(* configuration gives: at most one to a device, each to one device.       *)
Devices == RangeOf(AllDevices)
Unrepeated(s) == \A i, j \in DOMAIN s : s[i] = s[j] => i = j
Lists == {s \in Seq(Devices) : Unrepeated(s)}
Distinct(o) == \A p, q \in o : p[1] = q[1] \/ p[2] = q[2] => p = q
Numbers(o) == {p[2] : p \in o}
Orderly(c, b) == Orders(c) \subseteq Devices \X (0 .. b) /\ Distinct(Orders(c))
Numbered(c, D) == Orders(c) = {<<D[i], i>> : i \in DOMAIN D}

LEMMA DevicesAreListed ==
    /\ AllDevices \in Lists
    /\ Disks \in Lists /\ Ifaces \in Lists
    /\ RangeOf(Disks) \cap RangeOf(Ifaces) = {}
<1> DEFINE DI == Disks \o Ifaces
           DIR == DI \o Redirs
           All == DIR \o Hosts
           d == Len(Disks)
           e == Len(Ifaces)
           E == RangeOf(Disks) \cup RangeOf(Ifaces) \cup RangeOf(Redirs) \cup RangeOf(Hosts)
<1>1. Disks \in Seq(E) /\ Ifaces \in Seq(E) /\ Redirs \in Seq(E) /\ Hosts \in Seq(E)
    BY BootAssumption DEF BootAssumption, RangeOf
<1>2. All = AllDevices
    BY DEF AllDevices
<1>. HIDE DEF E
<1>3. d \in Nat /\ e \in Nat /\ DOMAIN Disks = 1 .. d /\ DOMAIN Ifaces = 1 .. e
    BY <1>1
<1>4. DI \in Seq(E) /\ Len(DI) = d + e
      /\ (\A i \in 1 .. d : DI[i] = Disks[i]) /\ (\A i \in 1 .. e : DI[d + i] = Ifaces[i])
    BY <1>1
<1>. HIDE DEF DI, d, e
<1>5. DIR \in Seq(E) /\ Len(DIR) >= d + e /\ Len(DIR) \in Nat /\ (\A i \in 1 .. d + e : DIR[i] = DI[i])
    BY <1>1, <1>3, <1>4
<1>. HIDE DEF DIR
<1>6. All \in Seq(E) /\ Len(All) >= d + e /\ Len(All) \in Nat /\ (\A i \in 1 .. d + e : All[i] = DIR[i])
    BY <1>1, <1>3, <1>5
<1>. HIDE DEF All
<1>7. DOMAIN All = 1 .. Len(All)
    BY <1>6
<1>8. /\ \A i \in 1 .. d : i \in DOMAIN All /\ All[i] = Disks[i]
      /\ \A i \in 1 .. e : d + i \in DOMAIN All /\ All[d + i] = Ifaces[i]
    <2>1. ASSUME NEW i \in 1 .. d PROVE i \in DOMAIN All /\ All[i] = Disks[i]
        BY <1>3, <1>4, <1>5, <1>6, <1>7
    <2>2. ASSUME NEW i \in 1 .. e PROVE d + i \in DOMAIN All /\ All[d + i] = Ifaces[i]
        <3>1. d + i \in 1 .. d + e /\ d + i \in 1 .. Len(All)
            BY <1>3, <1>6
        <3>. QED BY <3>1, <1>4, <1>5, <1>6, <1>7
    <2>. QED BY <2>1, <2>2
<1>9. \A i, j \in DOMAIN All : All[i] = All[j] => i = j
    BY <1>2, BootAssumption DEF BootAssumption
<1>10. All \in Seq(Devices)
    <2>1. \A i \in DOMAIN All : All[i] \in Devices
        BY <1>2 DEF Devices, RangeOf
    <2>. QED BY <1>6, <2>1
<1>11. AllDevices \in Lists
    BY <1>2, <1>9, <1>10 DEF Lists, Unrepeated
<1>12. Disks \in Lists
    <2>1. \A i \in 1 .. d : Disks[i] \in Devices
        BY <1>8, <1>2 DEF Devices, RangeOf
    <2>2. Disks \in Seq(Devices)
        BY <1>1, <1>3, <2>1
    <2>3. Unrepeated(Disks)
        BY <1>3, <1>8, <1>9 DEF Unrepeated
    <2>. QED BY <2>2, <2>3 DEF Lists
<1>13. Ifaces \in Lists
    <2>1. \A i \in 1 .. e : Ifaces[i] \in Devices
        <3>1. ASSUME NEW i \in 1 .. e PROVE Ifaces[i] \in Devices
            <4>1. d + i \in DOMAIN All /\ All[d + i] = Ifaces[i]
                BY <1>8
            <4>. QED BY <4>1, <1>2 DEF Devices, RangeOf
        <3>. QED BY <3>1
    <2>2. Ifaces \in Seq(Devices)
        BY <1>1, <1>3, <2>1
    <2>3. ASSUME NEW i \in 1 .. e, NEW j \in 1 .. e, Ifaces[i] = Ifaces[j] PROVE i = j
        <3>1. d + i = d + j
            BY <2>3, <1>8, <1>9
        <3>. QED BY <1>3, <3>1
    <2>. QED BY <1>3, <2>2, <2>3 DEF Lists, Unrepeated
<1>14. RangeOf(Disks) \cap RangeOf(Ifaces) = {}
    <2>1. SUFFICES ASSUME NEW i \in 1 .. d, NEW j \in 1 .. e, Disks[i] = Ifaces[j] PROVE FALSE
        BY <1>3 DEF RangeOf
    <2>2. i = d + j
        BY <2>1, <1>8, <1>9
    <2>. QED BY <1>3, <2>2
<1>. QED BY <1>11, <1>12, <1>13, <1>14

(* What is left of a list is a list. *)
LEMMA AmongIsList ==
    ASSUME NEW s \in Lists, NEW S
    PROVE  Among(s, S) \in Lists /\ RangeOf(Among(s, S)) \subseteq RangeOf(s) \cap S
<1> DEFINE P == {i \in DOMAIN s : s[i] \in S}
           n == Cardinality(P)
           at(k) == CHOOSE i \in P : Rank(P, i) = k - 1
           a == [k \in 1 .. n |-> s[at(k)]]
           b == Len(s)
<1>1. a = Among(s, S)
    BY DEF Among, Rank
<1>2. s \in Seq(Devices) /\ b \in Nat /\ DOMAIN s = 1 .. b /\ P \subseteq 0 .. b /\ P \subseteq DOMAIN s
    BY DEF Lists
<1>3. n \in Nat
    BY <1>2, BoundedIsFinite
<1>4. ASSUME NEW k \in 1 .. n PROVE at(k) \in P /\ Rank(P, at(k)) = k - 1
    <2>1. k - 1 \in 0 .. n - 1
        BY <1>3
    <2>2. \E i \in P : Rank(P, i) = k - 1
        BY <1>2, <2>1, PlacesAreTaken
    <2>. QED BY <2>2, Zenon
<1>5. \A i \in P : s[i] \in S /\ s[i] \in Devices /\ s[i] \in RangeOf(s)
    BY <1>2 DEF RangeOf
<1>. HIDE DEF P, n, at
<1>6. \A k \in 1 .. n : a[k] = s[at(k)]
    OBVIOUS
<1>7. ASSUME NEW k \in 1 .. n PROVE a[k] \in S /\ a[k] \in Devices /\ a[k] \in RangeOf(s)
    BY <1>4, <1>5, <1>6
<1>8. ASSUME NEW k \in 1 .. n, NEW m \in 1 .. n, a[k] = a[m] PROVE k = m
    <2>1. at(k) \in DOMAIN s /\ at(m) \in DOMAIN s /\ s[at(k)] = s[at(m)]
        BY <1>2, <1>4, <1>6, <1>8
    <2>2. at(k) = at(m)
        BY <2>1 DEF Lists, Unrepeated
    <2>3. k - 1 = m - 1
        BY <1>4, <2>2
    <2>. QED BY <1>3, <2>3
<1>9. a \in Seq(Devices) /\ DOMAIN a = 1 .. n
    BY <1>3, <1>7
<1>. HIDE DEF a
<1>10. a \in Lists
    BY <1>8, <1>9 DEF Lists, Unrepeated
<1>11. RangeOf(a) \subseteq RangeOf(s) \cap S
    BY <1>7, <1>9 DEF RangeOf
<1>. QED BY <1>1, <1>10, <1>11

LEMMA ListsJoin ==
    ASSUME NEW s \in Lists, NEW t \in Lists, RangeOf(s) \cap RangeOf(t) = {}
    PROVE  s \o t \in Lists
<1> DEFINE m == Len(s)
           n == Len(t)
           u == s \o t
<1>1. s \in Seq(Devices) /\ t \in Seq(Devices) /\ Unrepeated(s) /\ Unrepeated(t)
    BY DEF Lists
<1>2. m \in Nat /\ n \in Nat /\ DOMAIN s = 1 .. m /\ DOMAIN t = 1 .. n
    BY <1>1
<1>3. u \in Seq(Devices) /\ DOMAIN u = 1 .. m + n
      /\ \A i \in 1 .. m + n : u[i] = IF i <= m THEN s[i] ELSE t[i - m]
    BY <1>1
<1>. HIDE DEF u, m, n
<1>4. ASSUME NEW i \in 1 .. m, NEW j \in 1 .. n PROVE s[i] # t[j]
    BY <1>2 DEF RangeOf
<1>5. ASSUME NEW i \in 1 .. m + n, NEW j \in 1 .. m + n, u[i] = u[j] PROVE i = j
    <2>1. CASE i <= m /\ j <= m
        <3>1. i \in 1 .. m /\ j \in 1 .. m /\ s[i] = s[j]
            BY <1>2, <1>3, <1>5, <2>1
        <3>. QED BY <1>1, <1>2, <3>1 DEF Unrepeated
    <2>2. CASE i > m /\ j > m
        <3>1. i - m \in 1 .. n /\ j - m \in 1 .. n /\ t[i - m] = t[j - m]
            BY <1>2, <1>3, <1>5, <2>2
        <3>2. i - m = j - m
            BY <1>1, <1>2, <3>1 DEF Unrepeated
        <3>. QED BY <1>2, <3>2
    <2>3. CASE i <= m /\ j > m
        <3>1. i \in 1 .. m /\ j - m \in 1 .. n /\ s[i] = t[j - m]
            BY <1>2, <1>3, <1>5, <2>3
        <3>. QED BY <1>4, <3>1
    <2>4. CASE i > m /\ j <= m
        <3>1. i - m \in 1 .. n /\ j \in 1 .. m /\ s[j] = t[i - m]
            BY <1>2, <1>3, <1>5, <2>4
        <3>. QED BY <1>4, <3>1
    <2>. QED BY <1>2, <2>1, <2>2, <2>3, <2>4
<1>. QED BY <1>3, <1>5 DEF Lists, Unrepeated, u

(* As many devices as numbers, however far one counts. *)
LEMMA NumbersCount ==
    ASSUME NEW b \in Nat, NEW X, NEW o, o \subseteq X \X (0 .. b), Distinct(o)
    PROVE  Cardinality(o) = Cardinality(Numbers(o))
<1> DEFINE N == Numbers(o)
           f == [k \in N |-> CHOOSE p \in o : p[2] = k]
<1>1. N \subseteq 0 .. b
    BY DEF Numbers
<1>2. ASSUME NEW k \in N PROVE f[k] \in o /\ f[k][2] = k
    BY DEF Numbers
<1>3. ASSUME NEW p \in o PROVE p[2] \in N /\ f[p[2]] = p
    <2>1. p[2] \in N
        BY DEF Numbers
    <2>2. f[p[2]] \in o /\ f[p[2]][2] = p[2]
        BY <1>2, <2>1
    <2>. QED BY <2>1, <2>2 DEF Distinct
<1>4. f \in [N -> o]
    BY <1>2
<1>. HIDE DEF f, N
<1>5. f \in Injection(N, o)
    BY <1>2, <1>4 DEF Injection, IsInjective
<1>6. f \in Surjection(N, o)
    BY <1>3, <1>4 DEF Surjection
<1>7. IsFiniteSet(N)
    BY <1>1, BoundedIsFinite
<1>8. ExistsBijection(N, o)
    BY <1>5, <1>6 DEF ExistsBijection, Bijection
<1>9. Cardinality(o) = Cardinality(N)
    BY <1>7, <1>8, FS_Bijection
<1>. QED BY <1>9 DEF N

LEMMA NumbersRank ==
    ASSUME NEW b \in Nat, NEW X, NEW o, o \subseteq X \X (0 .. b), Distinct(o), NEW k
    PROVE  Cardinality({q \in o : q[2] < k}) = Rank(Numbers(o), k)
<1> DEFINE below == {q \in o : q[2] < k}
<1>1. below \subseteq X \X (0 .. b) /\ Distinct(below)
    BY DEF Distinct
<1>2. Numbers(below) = {m \in Numbers(o) : m < k}
    BY DEF Numbers
<1>. HIDE DEF below
<1>3. Cardinality(below) = Cardinality(Numbers(below))
    BY <1>1, NumbersCount
<1>. QED BY <1>2, <1>3 DEF Rank, below

(* Orders that are distinct put the devices in a sequence: the one at a place *)
(* has that many before it.                                                   *)
LEMMA SequencePlaces ==
    ASSUME NEW b \in Nat, NEW c, Orderly(c, b)
    PROVE  /\ Cardinality(Orders(c)) \in Nat
           /\ DOMAIN BootSequence(c) = 1 .. Cardinality(Orders(c))
           /\ \A i \in 1 .. Cardinality(Orders(c)) :
                \E p \in Orders(c) :
                    Rank(Numbers(Orders(c)), p[2]) = i - 1 /\ BootSequence(c)[i] = p[1]
<1> DEFINE o == Orders(c)
           N == Numbers(o)
           n == Cardinality(o)
           at(i) == CHOOSE p \in o : Cardinality({q \in o : q[2] < p[2]}) = i - 1
<1>0. o \subseteq Devices \X (0 .. b) /\ Distinct(o)
    BY DEF Orderly
<1>1. N \subseteq 0 .. b
    BY <1>0 DEF Numbers
<1>2. n = Cardinality(N)
    BY <1>0, NumbersCount
<1>3. n \in Nat
    BY <1>1, <1>2, BoundedIsFinite
<1>4. BootSequence(c) = [i \in 1 .. n |-> at(i)[1]]
    BY DEF BootSequence
<1>5. ASSUME NEW i \in 1 .. n PROVE at(i) \in o /\ Rank(N, at(i)[2]) = i - 1
    <2>1. i - 1 \in 0 .. Cardinality(N) - 1
        BY <1>2, <1>3
    <2>2. PICK k \in N : Rank(N, k) = i - 1
        BY <1>1, <2>1, PlacesAreTaken
    <2>3. PICK p \in o : p[2] = k
        BY DEF Numbers
    <2>4. Cardinality({q \in o : q[2] < p[2]}) = i - 1
        BY <1>0, <2>2, <2>3, NumbersRank
    <2>5. at(i) \in o /\ Cardinality({q \in o : q[2] < at(i)[2]}) = i - 1
        BY <2>4
    <2>6. Cardinality({q \in o : q[2] < at(i)[2]}) = Rank(N, at(i)[2])
        BY <1>0, NumbersRank
    <2>. QED BY <2>5, <2>6
<1>. HIDE DEF at
<1>6. \A i \in 1 .. n : BootSequence(c)[i] = at(i)[1]
    BY <1>4
<1>. QED BY <1>3, <1>4, <1>5, <1>6

LEMMA SequenceIsList ==
    ASSUME NEW b \in Nat, NEW c, Orderly(c, b)
    PROVE  BootSequence(c) \in Lists
<1> DEFINE o == Orders(c)
           N == Numbers(o)
           n == Cardinality(o)
           s == BootSequence(c)
<1>0. o \subseteq Devices \X (0 .. b) /\ Distinct(o)
    BY DEF Orderly
<1>1. /\ n \in Nat /\ DOMAIN s = 1 .. n
      /\ \A i \in 1 .. n : \E p \in o : Rank(N, p[2]) = i - 1 /\ s[i] = p[1]
    BY SequencePlaces
<1>2. s = [i \in 1 .. n |-> s[i]]
    BY DEF BootSequence
<1>3. \A i \in 1 .. n : s[i] \in Devices
    BY <1>0, <1>1
<1>4. ASSUME NEW i \in 1 .. n, NEW j \in 1 .. n, s[i] = s[j] PROVE i = j
    <2>1. PICK p \in o : Rank(N, p[2]) = i - 1 /\ s[i] = p[1]
        BY <1>1
    <2>2. PICK q \in o : Rank(N, q[2]) = j - 1 /\ s[j] = q[1]
        BY <1>1
    <2>3. p = q
        BY <1>0, <1>4, <2>1, <2>2 DEF Distinct
    <2>. QED BY <1>1, <2>1, <2>2, <2>3
<1>. HIDE DEF s, n
<1>5. s \in Seq(Devices)
    BY <1>1, <1>2, <1>3
<1>6. s \in Lists
    BY <1>1, <1>4, <1>5 DEF Lists, Unrepeated
<1>. QED BY <1>6 DEF s

(* Numbered one by one, the devices come in just that order. *)
LEMMA SequenceIsGiven ==
    ASSUME NEW D \in Lists, NEW c, Numbered(c, D)
    PROVE  BootSequence(c) = D
<1> DEFINE o == Orders(c)
           N == Numbers(o)
           n == Cardinality(o)
           s == BootSequence(c)
           b == Len(D)
<1>1. D \in Seq(Devices) /\ b \in Nat /\ DOMAIN D = 1 .. b /\ Unrepeated(D)
    BY DEF Lists
<1>. HIDE DEF b
<1>0. o = {<<D[i], i>> : i \in DOMAIN D}
    BY DEF Numbered
<1>2. o \subseteq Devices \X (0 .. b)
    BY <1>0, <1>1
<1>3. Distinct(o)
    <2>1. ASSUME NEW p \in o, NEW q \in o, p[1] = q[1] \/ p[2] = q[2] PROVE p = q
        <3>1. PICK i \in DOMAIN D : p = <<D[i], i>>
            BY <1>0
        <3>2. PICK j \in DOMAIN D : q = <<D[j], j>>
            BY <1>0
        <3>3. i = j
            BY <1>1, <2>1, <3>1, <3>2 DEF Unrepeated
        <3>. QED BY <3>1, <3>2, <3>3
    <2>. QED BY <2>1 DEF Distinct
<1>4. N = 1 .. b
    <2>1. ASSUME NEW k \in 1 .. b PROVE k \in N
        <3>1. <<D[k], k>> \in o /\ <<D[k], k>>[2] = k
            BY <1>0, <1>1
        <3>. QED BY <3>1, Zenon DEF Numbers
    <2>2. ASSUME NEW k \in N PROVE k \in 1 .. b
        <3>1. PICK p \in o : k = p[2]
            BY Zenon DEF Numbers
        <3>. QED BY <1>0, <1>1, <3>1
    <2>. HIDE DEF N
    <2>. QED BY <2>1, <2>2
<1>5. n = b
    <2>1. n = Cardinality(N)
        BY <1>1, <1>2, <1>3, NumbersCount
    <2>2. Cardinality(1 .. b) = b
        BY <1>1, FS_Interval
    <2>. QED BY <1>4, <2>1, <2>2
<1>6. ASSUME NEW k \in 1 .. b PROVE Rank(N, k) = k - 1
    <2>1. {m \in N : m < k} = 1 .. k - 1
        <3>1. \A m \in Int : (m \in 1 .. b /\ m < k) <=> m \in 1 .. k - 1
            BY <1>1
        <3>2. \A m \in 1 .. b : m \in Int
            OBVIOUS
        <3>3. \A m \in 1 .. k - 1 : m \in Int
            BY <1>1
        <3>4. {m \in 1 .. b : m < k} = 1 .. k - 1
            BY <3>1, <3>2, <3>3, Zenon
        <3>. QED BY <1>4, <3>4, Zenon
    <2>2. Cardinality(1 .. k - 1) = k - 1
        BY <1>1, FS_Interval
    <2>. QED BY <2>1, <2>2 DEF Rank
<1>7. /\ DOMAIN s = 1 .. n
      /\ \A i \in 1 .. n : \E p \in o : Rank(N, p[2]) = i - 1 /\ s[i] = p[1]
    <2>1. Orderly(c, b)
        BY <1>2, <1>3 DEF Orderly
    <2>. QED BY <1>1, <2>1, SequencePlaces
<1>8. ASSUME NEW i \in 1 .. b PROVE s[i] = D[i]
    <2>1. PICK p \in o : Rank(N, p[2]) = i - 1 /\ s[i] = p[1]
        BY <1>5, <1>7
    <2>2. PICK k \in 1 .. b : p = <<D[k], k>>
        BY <1>0, <1>1
    <2>3. k - 1 = i - 1
        BY <1>6, <2>1, <2>2
    <2>. QED BY <1>1, <2>1, <2>2, <2>3
<1>9. s = [i \in 1 .. b |-> s[i]] /\ D = [i \in 1 .. b |-> D[i]]
    <2>1. s = [i \in 1 .. n |-> s[i]]
        BY DEF BootSequence
    <2>. QED BY <1>1, <1>5, <2>1
<1>. HIDE DEF s
<1>10. s = D
    BY <1>8, <1>9
<1>. QED BY <1>10 DEF s

(* What a save writes: a number for each device that is chosen, its place, *)
(* but for a host device in the first place.                               *)
LEMMA SavedOrders ==
    ASSUME NEW D \in Lists
    PROVE  /\ Orderly(updateBootOrder(D), Len(D)) /\ Len(D) \in Nat
           /\ ~(Len(D) > 0 /\ IsHost(D[1])) => Numbered(updateBootOrder(D), D)
<1> DEFINE c == updateBootOrder(D)
           o == Orders(c)
           n == Len(D)
           given == {<<D[i], i>> : i \in DOMAIN D}
           first == n > 0 /\ IsHost(D[1])
           order == c.order
<1>1. D \in Seq(Devices) /\ n \in Nat /\ DOMAIN D = 1 .. n /\ Unrepeated(D)
    BY DEF Lists
<1>2. \A i \in 1 .. n : D[i] \in Devices
    BY <1>1
<1>3. ASSUME NEW d \in Devices
      PROVE  order[d] = IF d \notin RangeOf(D) \/ (IsHost(d) /\ D[1] = d) THEN 0
                        ELSE CHOOSE i \in DOMAIN D : D[i] = d
    BY DEF updateBootOrder, Devices
<1>4. ASSUME NEW d \in Devices, d \notin RangeOf(D) PROVE order[d] = 0
    BY <1>3, <1>4
<1>5. ASSUME NEW i \in 1 .. n
      PROVE  order[D[i]] = IF IsHost(D[i]) /\ D[1] = D[i] THEN 0 ELSE i
    <2>1. D[i] \in Devices /\ D[i] \in RangeOf(D)
        BY <1>1, <1>2 DEF RangeOf
    <2>2. (CHOOSE k \in DOMAIN D : D[k] = D[i]) = i
        BY <1>1 DEF Unrepeated
    <2>. QED BY <1>3, <2>1, <2>2
<1>6. c.osBoot = <<>>
    BY DEF updateBootOrder
<1>. HIDE DEF c, order
<1>7. \A s, types : OsOrders(s, c.osBoot, types) = {}
    BY <1>6 DEF OsOrders
<1>8. o = {<<d, order[d]>> : d \in {e \in Devices : order[e] # 0}}
    <2>1. /\ OsOrders(Disks, c.osBoot, {"disk", "fd", "cdrom"}) = {}
          /\ OsOrders(Ifaces, c.osBoot, {"network"}) = {}
        BY <1>7
    <2>. QED BY <2>1 DEF Orders, Devices, order
<1>. HIDE DEF o
<1>9. ASSUME NEW p \in o PROVE \E i \in 1 .. n : p = <<D[i], i>>
    <2>1. PICK d \in Devices : order[d] # 0 /\ p = <<d, order[d]>>
        BY <1>8
    <2>2. d \in RangeOf(D)
        BY <1>4, <2>1
    <2>3. PICK i \in 1 .. n : d = D[i]
        BY <1>1, <2>2 DEF RangeOf
    <2>4. order[d] = i
        BY <1>5, <2>1, <2>3
    <2>. QED BY <2>1, <2>3, <2>4
<1>10. o \subseteq Devices \X (0 .. n)
    <2>1. ASSUME NEW p \in o PROVE p \in Devices \X (0 .. n)
        <3>1. PICK i \in 1 .. n : p = <<D[i], i>>
            BY <1>9
        <3>2. D[i] \in Devices /\ i \in 0 .. n
            BY <1>1, <1>2
        <3>. QED BY <3>1, <3>2
    <2>. QED BY <2>1
<1>11. Distinct(o)
    <2>1. ASSUME NEW p \in o, NEW q \in o, p[1] = q[1] \/ p[2] = q[2] PROVE p = q
        <3>1. PICK i \in 1 .. n : p = <<D[i], i>>
            BY <1>9
        <3>2. PICK j \in 1 .. n : q = <<D[j], j>>
            BY <1>9
        <3>3. i = j
            BY <1>1, <2>1, <3>1, <3>2 DEF Unrepeated
        <3>. QED BY <3>1, <3>2, <3>3
    <2>. QED BY <2>1 DEF Distinct
<1>12. ASSUME ~first PROVE o = given
    <2>1. ASSUME NEW i \in 1 .. n PROVE <<D[i], i>> \in o
        <3>1. ~(IsHost(D[i]) /\ D[1] = D[i])
            BY <1>1, <1>12
        <3>2. order[D[i]] = i /\ i # 0
            BY <1>5, <3>1
        <3>. QED BY <1>2, <1>8, <3>2
    <2>. QED BY <1>1, <1>9, <2>1
<1>. QED BY <1>1, <1>10, <1>11, <1>12 DEF Orderly, Numbered, o, c

(* Before any save the old list of device types gives the orders: the disks *)
(* and the interfaces are numbered by different entries.                    *)
LEMMA EarlierEntries ==
    ASSUME NEW b, NEW types, NEW k \in Nat, NEW l \in Nat, k < l, b[l] \in types
    PROVE  Cardinality({j \in 1 .. k : b[j] \in types}) < Cardinality({j \in 1 .. l : b[j] \in types})
<1> DEFINE A == {j \in 1 .. k : b[j] \in types}
           B == {j \in 1 .. l : b[j] \in types}
<1>1. A \subseteq 1 .. k /\ B \subseteq 0 .. l /\ l \in B
    OBVIOUS
<1>2. A \subseteq B
    <2>1. ASSUME NEW j \in A PROVE j \in B
        <3>1. j \in 1 .. k /\ b[j] \in types
            OBVIOUS
        <3>2. j \in 1 .. l
            BY <3>1
        <3>. QED BY <3>1, <3>2
    <2>. QED BY <2>1
<1>3. l \notin A
    BY <1>1
<1>. HIDE DEF A, B
<1>4. IsFiniteSet(B) /\ Cardinality(B) \in Nat
    BY <1>1, BoundedIsFinite
<1>5. Cardinality(A) \in Nat /\ Cardinality(A) <= Cardinality(B) /\ Cardinality(A) # Cardinality(B)
    BY <1>1, <1>2, <1>3, <1>4, FS_Subset, FS_CardinalityType
<1>6. Cardinality(A) < Cardinality(B)
    BY <1>4, <1>5
<1>. QED BY <1>6 DEF A, B

LEMMA OsOrdersAreDistinct ==
    ASSUME NEW s \in Lists, NEW b, NEW n \in Nat, DOMAIN b = 1 .. n, NEW types
    PROVE  /\ OsOrders(s, b, types) \subseteq RangeOf(s) \X (0 .. n)
           /\ Distinct(OsOrders(s, b, types))
           /\ \A p \in OsOrders(s, b, types) : b[p[2]] \in types
<1> DEFINE count(k) == Cardinality({j \in 1 .. k : b[j] \in types})
           o == OsOrders(s, b, types)
<1>1. ASSUME NEW p \in o
      PROVE  /\ p \in RangeOf(s) \X (1 .. n) /\ b[p[2]] \in types
             /\ count(p[2]) <= Len(s) /\ p[1] = s[count(p[2])]
    BY DEF OsOrders
<1>2. ASSUME NEW k \in 1 .. n, b[k] \in types PROVE count(k) \in Nat /\ count(k) >= 1
    <2>1. {j \in 1 .. 0 : b[j] \in types} = {}
        OBVIOUS
    <2>2. count(0) = 0
        BY <2>1, FS_EmptySet
    <2>3. count(0) < count(k)
        BY <1>2, EarlierEntries
    <2>4. {j \in 1 .. k : b[j] \in types} \subseteq 0 .. k
        OBVIOUS
    <2>5. count(k) \in Nat
        BY <2>4, BoundedIsFinite
    <2>. HIDE DEF count
    <2>. QED BY <2>2, <2>3, <2>5
<1>3. ASSUME NEW k \in 1 .. n, NEW l \in 1 .. n, b[k] \in types, b[l] \in types, count(k) = count(l)
      PROVE  k = l
    <2>1. k \in Nat /\ l \in Nat /\ count(k) \in Nat
        BY <1>2, <1>3
    <2>2. k < l => count(k) < count(l)
        BY <1>3, <2>1, EarlierEntries
    <2>3. l < k => count(l) < count(k)
        BY <1>3, <2>1, EarlierEntries
    <2>. HIDE DEF count
    <2>. QED BY <1>3, <2>1, <2>2, <2>3
<1>. HIDE DEF count, o
<1>4. s \in Seq(Devices) /\ Len(s) \in Nat /\ DOMAIN s = 1 .. Len(s) /\ Unrepeated(s)
    BY DEF Lists
<1>5. ASSUME NEW p \in o, NEW q \in o, p[1] = q[1] \/ p[2] = q[2] PROVE p = q
    <2>1. /\ p[2] \in 1 .. n /\ b[p[2]] \in types /\ count(p[2]) <= Len(s)
          /\ p[1] = s[count(p[2])] /\ p = <<p[1], p[2]>>
          /\ q[2] \in 1 .. n /\ b[q[2]] \in types /\ count(q[2]) <= Len(s)
          /\ q[1] = s[count(q[2])] /\ q = <<q[1], q[2]>>
        BY <1>1
    <2>2. CASE p[2] = q[2]
        BY <2>1, <2>2
    <2>3. CASE p[1] = q[1]
        <3>1. count(p[2]) \in DOMAIN s /\ count(q[2]) \in DOMAIN s
            BY <1>2, <1>4, <2>1
        <3>2. count(p[2]) = count(q[2])
            BY <1>4, <2>1, <2>3, <3>1 DEF Unrepeated
        <3>3. p[2] = q[2]
            BY <1>3, <2>1, <3>2
        <3>. QED BY <2>1, <2>3, <3>3
    <2>. QED BY <1>5, <2>2, <2>3
<1>6. Distinct(o)
    BY <1>5 DEF Distinct
<1>7. o \subseteq RangeOf(s) \X (0 .. n)
    BY <1>1
<1>. QED BY <1>1, <1>6, <1>7 DEF o

LEMMA InitialOrders ==
    ASSUME NEW c \in MachineConfs("boot")
    PROVE  \E n \in Nat : Orderly(c, n)
<1> DEFINE b == c.osBoot
           n == Len(b)
           disks == OsOrders(Disks, b, {"disk", "fd", "cdrom"})
           ifaces == OsOrders(Ifaces, b, {"network"})
<1>1. b \in OsBoots /\ \A d \in Devices : c.order[d] = 0
    BY DEF MachineConfs, Devices
<1>2. n \in Nat /\ DOMAIN b = 1 .. n
    <2>1. b \in Seq(RangeOf(b))
        BY <1>1, BootAssumption DEF BootAssumption
    <2>. HIDE DEF b
    <2>. QED BY <2>1
<1>3. Orders(c) = disks \cup ifaces
    BY <1>1 DEF Orders, Devices
<1>. HIDE DEF b, n
<1>4. /\ disks \subseteq RangeOf(Disks) \X (0 .. n) /\ Distinct(disks)
      /\ \A p \in disks : b[p[2]] \in {"disk", "fd", "cdrom"}
    BY <1>2, DevicesAreListed, OsOrdersAreDistinct
<1>5. /\ ifaces \subseteq RangeOf(Ifaces) \X (0 .. n) /\ Distinct(ifaces)
      /\ \A p \in ifaces : b[p[2]] \in {"network"}
    BY <1>2, DevicesAreListed, OsOrdersAreDistinct
<1>6. RangeOf(Disks) \subseteq Devices /\ RangeOf(Ifaces) \subseteq Devices
    BY DevicesAreListed DEF Lists, RangeOf
<1>. HIDE DEF disks, ifaces
<1>7. ASSUME NEW p \in disks, NEW q \in ifaces PROVE p[1] # q[1] /\ p[2] # q[2]
    <2>1. p[1] \in RangeOf(Disks) /\ q[1] \in RangeOf(Ifaces)
        BY <1>4, <1>5
    <2>2. b[p[2]] # b[q[2]]
        BY <1>4, <1>5
    <2>. QED BY <2>1, <2>2, DevicesAreListed
<1>8. Distinct(disks \cup ifaces)
    BY <1>4, <1>5, <1>7 DEF Distinct
<1>9. disks \cup ifaces \subseteq Devices \X (0 .. n)
    BY <1>4, <1>5, <1>6
<1>10. Orderly(c, n)
    BY <1>3, <1>8, <1>9 DEF Orderly
<1>. QED BY <1>2, <1>10

(* What the boot order dialog shows is a list of devices, whatever it is    *)
(* opened on and however the user changes it.                               *)
BootConfs == MachineConfs("boot") \cup {updateBootOrder(D) : D \in Lists}
BootValues == [devices : Lists, checked : SUBSET Devices]
BootForms == [values : BootValues, vm : BootConfs, wasRunning : BOOLEAN]

BootInv ==
    subject = "boot" =>
        /\ conf \in BootConfs
        /\ form # NoForm => form \in BootForms
        /\ job # NoJob => job \in [form : BootForms, base : BootConfs, step : Nat \ {0}]

LEMMA BootFormIsList ==
    ASSUME NEW c \in BootConfs
    PROVE  BootForm(c) \in BootValues
<1>1. \E n \in Nat : Orderly(c, n)
    BY SavedOrders, InitialOrders DEF BootConfs
<1> DEFINE first == BootSequence(c)
           rest == Among(AllDevices, RangeOf(AllDevices) \ RangeOf(first))
<1>2. first \in Lists
    BY <1>1, SequenceIsList
<1>3. rest \in Lists /\ RangeOf(rest) \subseteq RangeOf(AllDevices) \ RangeOf(first)
    BY DevicesAreListed, AmongIsList
<1>4. RangeOf(first) \subseteq Devices
    BY <1>2 DEF Lists, RangeOf
<1>. HIDE DEF first, rest
<1>5. first \o rest \in Lists
    BY <1>2, <1>3, ListsJoin
<1>. QED BY <1>4, <1>5 DEF BootForm, getSortedBootOrderDevices, BootValues, first, rest

LEMMA SwapIsList ==
    ASSUME NEW s \in Lists, NEW i \in 1 .. Len(s), NEW j \in 1 .. Len(s)
    PROVE  Swapped(s, i, j) \in Lists
<1> DEFINE t == [s EXCEPT ![i] = s[j], ![j] = s[i]]
           n == Len(s)
<1>1. s \in Seq(Devices) /\ n \in Nat /\ DOMAIN s = 1 .. n /\ Unrepeated(s)
    BY DEF Lists
<1>2. t \in Seq(Devices) /\ DOMAIN t = 1 .. n
    BY <1>1
<1>3. \A k \in 1 .. n : t[k] = IF k = j THEN s[i] ELSE IF k = i THEN s[j] ELSE s[k]
    BY <1>1
<1>. HIDE DEF t
<1>4. ASSUME NEW k \in 1 .. n, NEW m \in 1 .. n, t[k] = t[m] PROVE k = m
    BY <1>1, <1>3, <1>4 DEF Unrepeated
<1>5. t \in Lists
    BY <1>2, <1>4 DEF Lists, Unrepeated
<1>. QED BY <1>5 DEF Swapped, t

LEMMA BootEditsAreLists ==
    ASSUME NEW f \in BootValues, NEW v \in BootEdits(f)
    PROVE  v \in BootValues
<1>1. f.devices \in Lists /\ f.checked \subseteq Devices
    BY DEF BootValues
<1>2. Len(f.devices) \in Nat
    BY <1>1 DEF Lists
<1>3. CASE \E d \in RangeOf(AllDevices) : v = onToggleDevice(f, d)
    BY <1>3 DEF onToggleDevice, BootValues, Devices
<1>4. CASE \E i \in 2 .. Len(f.devices) : v = moveUp(f, i)
    <2>1. PICK i \in 2 .. Len(f.devices) : v = moveUp(f, i)
        BY <1>4
    <2>2. i \in 1 .. Len(f.devices) /\ i - 1 \in 1 .. Len(f.devices)
        BY <1>2
    <2>3. Swapped(f.devices, i, i - 1) \in Lists
        BY <1>1, <2>2, SwapIsList
    <2>4. v = [f EXCEPT !.devices = Swapped(f.devices, i, i - 1)]
        BY <2>1 DEF moveUp
    <2>. QED BY <2>3, <2>4 DEF BootValues
<1>5. CASE \E i \in 1 .. Len(f.devices) - 1 : v = moveDown(f, i)
    <2>1. PICK i \in 1 .. Len(f.devices) - 1 : v = moveDown(f, i)
        BY <1>5
    <2>2. i \in 1 .. Len(f.devices) /\ i + 1 \in 1 .. Len(f.devices)
        BY <1>2
    <2>3. Swapped(f.devices, i, i + 1) \in Lists
        BY <1>1, <2>2, SwapIsList
    <2>4. v = [f EXCEPT !.devices = Swapped(f.devices, i, i + 1)]
        BY <2>1 DEF moveDown
    <2>. QED BY <2>3, <2>4 DEF BootValues
<1>. QED BY <1>3, <1>4, <1>5 DEF BootEdits

(* A boot order is written as it is chosen, and read back as it is written. *)
LEMMA ChosenIsSaved ==
    ASSUME NEW f \in BootValues
    PROVE  /\ updateBootOrder(Chosen(f)) \in BootConfs
           /\ ~(Len(Chosen(f)) > 0 /\ IsHost(Chosen(f)[1])) =>
                BootSequence(updateBootOrder(Chosen(f))) = Chosen(f)
<1>1. Chosen(f) \in Lists
    BY AmongIsList DEF Chosen, BootValues
<1>. QED BY <1>1, SavedOrders, SequenceIsGiven DEF BootConfs

LEMMA BootInit == Init => BootInv
BY DEF Init, BootInv, BootConfs

LEMMA BootNext == RunningIsKnown /\ BootInv /\ [Next]_vars => BootInv'
<1>. SUFFICES ASSUME RunningIsKnown, BootInv, [Next]_vars, subject' = "boot"
              PROVE  BootInv'
    BY DEF BootInv
<1>1. subject = "boot"
    BY DEF Next, vars, Open, Edit, VmsAreKnown, Save, Cancel, CallReturns, CallFails, Finish, StartOrStop
<1>2. /\ conf \in BootConfs
      /\ form # NoForm => form \in BootForms
      /\ job # NoJob => job \in [form : BootForms, base : BootConfs, step : Nat \ {0}]
    BY <1>1 DEF BootInv
<1>3. SUFFICES /\ conf' \in BootConfs
               /\ form' # NoForm => form' \in BootForms
               /\ job' # NoJob => job' \in [form : BootForms, base : BootConfs, step : Nat \ {0}]
    BY <1>3 DEF BootInv
<1>4. CASE Open
    <2>1. form' = [values |-> BootForm(conf), vm |-> conf, wasRunning |-> running]
        BY <1>1, <1>4 DEF Open, FormOf
    <2>2. form' \in BootForms
        BY <1>2, <2>1, BootFormIsList DEF BootForms, RunningIsKnown
    <2>. QED BY <1>2, <1>4, <2>2 DEF Open
<1>5. CASE Edit
    <2>1. PICK v \in BootEdits(form.values) : form' = [form EXCEPT !.values = v]
        BY <1>1, <1>5 DEF Edit, Edits
    <2>2. form \in BootForms
        BY <1>2, <1>5 DEF Edit
    <2>3. v \in BootValues
        BY <2>2, BootEditsAreLists DEF BootForms
    <2>4. form' \in BootForms
        BY <2>1, <2>2, <2>3 DEF BootForms
    <2>. QED BY <1>2, <1>5, <2>4 DEF Edit
<1>6. CASE VmsAreKnown
    BY <1>1, <1>6 DEF VmsAreKnown
<1>7. CASE Save
    <2>1. form \in BootForms
        BY <1>2, <1>7 DEF Save
    <2>2. job' \in [form : BootForms, base : BootConfs, step : Nat \ {0}]
        BY <1>2, <1>7, <2>1 DEF Save
    <2>. QED BY <1>2, <1>7, <2>2 DEF Save
<1>8. CASE Cancel
    BY <1>2, <1>8 DEF Cancel
<1>9. CASE CallReturns
    <2>1. job \in [form : BootForms, base : BootConfs, step : Nat \ {0}]
        BY <1>2, <1>9 DEF CallReturns
    <2>2. Plan(job.form).calls = <<"defineOrder">> /\ ~(job.step > Len(Plan(job.form).calls))
        BY <1>1, <1>9 DEF Plan, CallReturns, IsDone
    <2>3. job.step = 1 /\ CurrentCall = "defineOrder"
        BY <2>1, <2>2 DEF CurrentCall
    <2>4. conf' = updateBootOrder(Chosen(job.form.values))
        BY <1>9, <2>3 DEF CallReturns, After
    <2>5. job.form.values \in BootValues
        BY <2>1 DEF BootForms
    <2>6. conf' \in BootConfs
        BY <2>4, <2>5, ChosenIsSaved
    <2>7. job' \in [form : BootForms, base : BootConfs, step : Nat \ {0}]
        BY <1>9, <2>1 DEF CallReturns
    <2>. QED BY <1>2, <1>9, <2>6, <2>7 DEF CallReturns
<1>10. CASE CallFails
    BY <1>2, <1>10 DEF CallFails
<1>11. CASE Finish
    <2>1. form' # NoForm => form' = form
        BY <1>11 DEF Finish
    <2>. QED BY <1>2, <1>11, <2>1 DEF Finish
<1>12. CASE StartOrStop
    BY <1>2, <1>12 DEF StartOrStop
<1>13. CASE UNCHANGED vars
    BY <1>2, <1>13 DEF vars
<1>. QED BY <1>4, <1>5, <1>6, <1>7, <1>8, <1>9, <1>10, <1>11, <1>12, <1>13 DEF Next
-----------------------------------------------------------------------------
(* What a save has done so far: until its first call returns the machine    *)
(* has the configuration it began with, after the first of two calls of the *)
(* memory dialog it has the maximum, and when all calls are over it has     *)
(* what was asked for.                                                      *)
Asked == ~HostGoesFirst(job.form.values)
BegunOnItsOwn == job.base = job.form.vm
Calls == Plan(job.form).calls

Progress ==
    /\ job.step \in Nat \ {0} /\ job.step <= Len(Calls) + 1
    /\ job.step = 1 => conf = job.base
    /\ subject = "memory" /\ job.step = 2 /\ Len(Calls) = 2 =>
        conf.memory = job.form.values.maxMemory
    /\ IsDone /\ Plan(job.form).closes /\ BegunOnItsOwn /\ Asked => SavedAs(job.form.values, conf)

IsJob(j) == j = [form |-> j.form, base |-> j.base, step |-> j.step]
SubjectIsKnown == subject \in AllSubjects
SaveInv == SubjectIsKnown /\ (job # NoJob => IsJob(job) /\ Progress)

LEMMA SubjectStaysKnown == SubjectIsKnown /\ [Next]_vars => SubjectIsKnown'
BY DEF SubjectIsKnown, Next, vars, Open, Edit, VmsAreKnown, Save, Cancel, CallReturns, CallFails,
       Finish, StartOrStop

LEMMA ProgressKept ==
    ASSUME Progress, UNCHANGED <<subject, conf, job>>
    PROVE  Progress'
BY DEF Progress, Calls, Plan, IsDone, BegunOnItsOwn, Asked, HostGoesFirst, SavedAs

LEMMA PlansAreShort ==
    ASSUME NEW f, SubjectIsKnown
    PROVE  /\ subject = "memory" => Plan(f) = MemoryPlan(f.values, f.vm)
           /\ subject = "cpu" => Plan(f) = [calls |-> <<"cpu", "vcpu">>, closes |-> TRUE]
           /\ subject = "boot" => Plan(f) = [calls |-> <<"defineOrder">>, closes |-> TRUE]
           /\ subject = "vsock" => Plan(f) = [calls |-> <<"vsock">>, closes |-> TRUE]
           /\ Len(Plan(f).calls) \in Nat
<1>1. /\ subject = "memory" => Plan(f) = MemoryPlan(f.values, f.vm)
      /\ subject = "cpu" => Plan(f) = [calls |-> <<"cpu", "vcpu">>, closes |-> TRUE]
      /\ subject = "boot" => Plan(f) = [calls |-> <<"defineOrder">>, closes |-> TRUE]
      /\ subject = "vsock" => Plan(f) = [calls |-> <<"vsock">>, closes |-> TRUE]
    BY DEF Plan
<1>2. Len(MemoryPlan(f.values, f.vm).calls) \in Nat
    BY DEF MemoryPlan
<1>. QED BY <1>1, <1>2 DEF SubjectIsKnown, AllSubjects

(* The four plans of the memory dialog. *)
LEMMA MemoryPlans ==
    ASSUME NEW f, NEW vm
    PROVE  LET p == MemoryPlan(f, vm)
           IN  \/ /\ vm.memory # f.maxMemory /\ p.closes
                  /\ p.calls = <<"setMaxMemory", "setMemory">>
               \/ ~p.closes /\ p.calls = <<"setMaxMemory">>
               \/ /\ vm.memory = f.maxMemory /\ p.closes
                  /\ p.calls = <<"setMemory">>
               \/ /\ vm.memory = f.maxMemory /\ vm.currentMemory = f.memory /\ p.closes
                  /\ p.calls = <<>>
BY DEF MemoryPlan

LEMMA SaveBegins ==
    ASSUME SubjectIsKnown, Save
    PROVE  IsJob(job') /\ Progress'
<1>1. job' = [form |-> form, base |-> conf, step |-> 1] /\ conf' = conf /\ subject' = subject
    BY DEF Save
<1>2. job'.form = form /\ job'.base = conf /\ job'.step = 1
    BY <1>1
<1>3. IsJob(job')
    BY <1>1 DEF IsJob
<1> DEFINE p == Plan(form)
<1>4. Plan(job.form)' = p /\ Calls' = p.calls
    BY <1>1, <1>2 DEF Plan, Calls
<1>5. Len(p.calls) \in Nat
    BY PlansAreShort
<1>6. ASSUME (IsDone /\ Plan(job.form).closes /\ BegunOnItsOwn /\ Asked)'
      PROVE  SavedAs(job.form.values, conf)'
    <2>1. 1 > Len(p.calls) /\ form.vm = conf
        BY <1>1, <1>2, <1>4, <1>6 DEF IsDone, BegunOnItsOwn
    <2>2. subject = "memory"
        <3>1. subject # "memory" => Len(p.calls) >= 1
            <4>1. SUFFICES ASSUME subject \in {"cpu", "boot", "vsock"}
                           PROVE  Len(p.calls) >= 1
                BY DEF SubjectIsKnown, AllSubjects
            <4>2. p.calls \in {<<"cpu", "vcpu">>, <<"defineOrder">>, <<"vsock">>}
                BY <4>1, PlansAreShort
            <4>. HIDE DEF p
            <4>. QED BY ONLY <4>2
        <3>. QED BY <1>5, <2>1, <3>1
    <2>3. p = MemoryPlan(form.values, form.vm)
        BY <2>2, PlansAreShort
    <2>4. form.vm.memory = form.values.maxMemory /\ form.vm.currentMemory = form.values.memory
        <3>. DEFINE q == MemoryPlan(form.values, form.vm)
        <3>1. p = q /\ 1 > Len(q.calls)
            BY <2>1, <2>3
        <3>2. \/ q.calls \in {<<"setMaxMemory", "setMemory">>, <<"setMaxMemory">>, <<"setMemory">>}
              \/ form.vm.memory = form.values.maxMemory /\ form.vm.currentMemory = form.values.memory
            BY MemoryPlans
        <3>. HIDE DEF q, p
        <3>3. q.calls \notin {<<"setMaxMemory", "setMemory">>, <<"setMaxMemory">>, <<"setMemory">>}
            BY ONLY <3>1
        <3>. QED BY <3>2, <3>3
    <2>. QED BY <1>1, <1>2, <2>1, <2>2, <2>4 DEF SavedAs
<1>. HIDE DEF p
<1>7. (job.step \in Nat \ {0} /\ job.step <= Len(Calls) + 1)'
    BY <1>2, <1>4, <1>5
<1>8. (job.step = 1 => conf = job.base)'
    BY <1>1, <1>2
<1>9. (subject = "memory" /\ job.step = 2 /\ Len(Calls) = 2 => conf.memory = job.form.values.maxMemory)'
    BY <1>2
<1>. QED BY <1>3, <1>6, <1>7, <1>8, <1>9 DEF Progress

(* What the last call of a save leaves is what was asked for. *)
LEMMA LastCallSaves ==
    ASSUME SubjectIsKnown, MemoryInv, BootInv, job # NoJob, IsJob(job), Progress, CallReturns,
           job.step = Len(Calls), Plan(job.form).closes, BegunOnItsOwn, Asked
    PROVE  SavedAs(job.form.values, conf')
<1> DEFINE f == job.form
           v == job.form.values
           vm == job.form.vm
<1>1. conf' = After(CurrentCall, f) /\ CurrentCall = Calls[job.step]
    BY DEF CallReturns, CurrentCall, Calls
<1>2. CASE subject = "memory"
    <2>1. /\ conf \in Memories
          /\ job \in [form : MemoryForms, base : Memories, step : Nat \ {0}]
        BY <1>2 DEF MemoryInv
    <2>2. Plan(f) = MemoryPlan(v, vm)
        BY <1>2, PlansAreShort
    <2>3. CASE Calls = <<"setMaxMemory", "setMemory">>
        <3>1. job.step = 2 /\ Len(Calls) = 2 /\ CurrentCall = "setMemory"
            BY <1>1, <2>3
        <3>2. conf.memory = v.maxMemory
            BY <1>2, <3>1 DEF Progress
        <3>3. conf' = [conf EXCEPT !.currentMemory = v.memory]
            BY <1>1, <3>1 DEF After
        <3>. QED BY <1>2, <2>1, <3>2, <3>3 DEF SavedAs, Memories
    <2>4. CASE Calls = <<"setMemory">> /\ vm.memory = v.maxMemory
        <3>1. job.step = 1 /\ CurrentCall = "setMemory"
            BY <1>1, <2>4
        <3>2. conf = vm
            BY <3>1 DEF Progress, BegunOnItsOwn
        <3>3. conf' = [conf EXCEPT !.currentMemory = v.memory]
            BY <1>1, <3>1 DEF After
        <3>. QED BY <1>2, <2>1, <2>4, <3>2, <3>3 DEF SavedAs, Memories
    <2>5. Calls # <<>>
        BY <2>1
    <2>. QED BY <2>2, <2>3, <2>4, <2>5, MemoryPlans DEF Calls
<1>3. CASE subject = "cpu"
    <2>1. Calls = <<"cpu", "vcpu">>
        BY <1>3, PlansAreShort DEF Calls
    <2>2. CurrentCall = "vcpu"
        BY <1>1, <2>1
    <2>3. conf' = v
        BY <1>1, <2>2 DEF After
    <2>. QED BY <1>3, <2>3 DEF SavedAs
<1>4. CASE subject = "boot"
    <2>1. Calls = <<"defineOrder">>
        BY <1>4, PlansAreShort DEF Calls
    <2>2. CurrentCall = "defineOrder"
        BY <1>1, <2>1
    <2>3. conf' = updateBootOrder(Chosen(v))
        BY <1>1, <2>2 DEF After
    <2>4. v \in BootValues
        BY <1>4 DEF BootInv, BootForms
    <2>5. ~(Len(Chosen(v)) > 0 /\ IsHost(Chosen(v)[1]))
        BY <1>4 DEF Asked, HostGoesFirst
    <2>. QED BY <1>4, <2>3, <2>4, <2>5, ChosenIsSaved DEF SavedAs
<1>5. CASE subject = "vsock"
    <2>1. Calls = <<"vsock">>
        BY <1>5, PlansAreShort DEF Calls
    <2>2. CurrentCall = "vsock"
        BY <1>1, <2>1
    <2>3. conf' = [attached |-> TRUE, auto |-> v.auto, address |-> v.address]
        BY <1>1, <2>2 DEF After
    <2>. QED BY <1>5, <2>3 DEF SavedAs
<1>. QED BY <1>2, <1>3, <1>4, <1>5 DEF SubjectIsKnown, AllSubjects

LEMMA CallProgresses ==
    ASSUME SubjectIsKnown, MemoryInv, BootInv, job # NoJob, IsJob(job), Progress, CallReturns
    PROVE  IsJob(job') /\ Progress'
<1>1. /\ job' = [job EXCEPT !.step = job.step + 1] /\ subject' = subject
      /\ conf' = After(CurrentCall, job.form) /\ ~(job.step > Len(Calls))
    BY DEF CallReturns, IsDone, Calls
<1>2. IsJob(job') /\ job'.form = job.form /\ job'.base = job.base /\ job'.step = job.step + 1
    BY <1>1 DEF IsJob
<1>3. Plan(job.form)' = Plan(job.form) /\ Calls' = Calls
    BY <1>1, <1>2 DEF Plan, Calls
<1>4. Len(Calls) \in Nat /\ job.step \in Nat \ {0} /\ job.step <= Len(Calls)
    BY <1>1, PlansAreShort DEF Progress, Calls
<1>5. (job.step \in Nat \ {0} /\ job.step <= Len(Calls) + 1)'
    BY <1>2, <1>3, <1>4
<1>6. (job.step = 1 => conf = job.base)'
    BY <1>2, <1>4
<1>7. (subject = "memory" /\ job.step = 2 /\ Len(Calls) = 2 => conf.memory = job.form.values.maxMemory)'
    <2>1. SUFFICES ASSUME subject = "memory", job.step + 1 = 2, Len(Calls) = 2
                   PROVE  conf'.memory = job.form.values.maxMemory
        BY <1>1, <1>2, <1>3
    <2>2. Calls = <<"setMaxMemory", "setMemory">>
        <3>1. Calls = MemoryPlan(job.form.values, job.form.vm).calls
            BY <2>1, PlansAreShort DEF Calls
        <3>2. Calls \in {<<"setMaxMemory", "setMemory">>, <<"setMaxMemory">>, <<"setMemory">>, <<>>}
            BY <3>1, MemoryPlans
        <3>. QED BY ONLY <2>1, <3>2
    <2>3. CurrentCall = "setMaxMemory"
        BY <1>4, <2>1, <2>2 DEF CurrentCall, Calls
    <2>. QED BY <1>1, <2>3 DEF After
<1>8. ASSUME (IsDone /\ Plan(job.form).closes /\ BegunOnItsOwn /\ Asked)'
      PROVE  SavedAs(job.form.values, conf)'
    <2>1. job.step = Len(Calls)
        BY <1>2, <1>3, <1>4, <1>8 DEF IsDone, Calls
    <2>2. Plan(job.form).closes /\ BegunOnItsOwn /\ Asked
        BY <1>1, <1>2, <1>3, <1>8 DEF BegunOnItsOwn, Asked, HostGoesFirst
    <2>3. SavedAs(job.form.values, conf')
        BY <2>1, <2>2, LastCallSaves
    <2>. QED BY <1>1, <1>2, <2>3 DEF SavedAs
<1>. QED BY <1>2, <1>5, <1>6, <1>7, <1>8 DEF Progress

LEMMA SaveNext == SaveInv /\ MemoryInv /\ BootInv /\ [Next]_vars => SaveInv'
<1>. SUFFICES ASSUME SaveInv, MemoryInv, BootInv, [Next]_vars
              PROVE  job' # NoJob => IsJob(job') /\ Progress'
    BY SubjectStaysKnown DEF SaveInv, IsJob
<1>1. CASE UNCHANGED <<subject, conf, job>>
    BY <1>1, ProgressKept DEF SaveInv
<1>2. CASE Save
    BY <1>2, SaveBegins DEF SaveInv
<1>3. CASE CallReturns
    BY <1>3, CallProgresses DEF SaveInv, CallReturns
<1>4. CASE CallFails \/ Finish
    BY <1>4 DEF CallFails, Finish
<1>5. ASSUME Open \/ Edit \/ VmsAreKnown \/ Cancel \/ StartOrStop \/ UNCHANGED vars
      PROVE  UNCHANGED <<subject, conf, job>>
    BY <1>5 DEF Open, Edit, VmsAreKnown, Cancel, StartOrStop, vars
<1>. QED BY <1>1, <1>2, <1>3, <1>4, <1>5 DEF Next

(* A dialog of the overview card closes by itself only when the machine has *)
(* what it shows, in whatever order it is edited, saved, refused, cancelled *)
(* and saved again (memoryModal.tsx save(), cpuModal.tsx, bootOrder.tsx,    *)
(* vsock.tsx): of two calls the dialog waits for the second, and a boot     *)
(* order that is written is read back as it was chosen.                     *)
THEOREM ClosesWithEverythingSaved == Spec => ClosesOnlyWhenSaved
<1>1. Init => RunningIsKnown /\ SaveInv
    BY OverviewDialogsAssumption DEF Init, RunningIsKnown, SaveInv, SubjectIsKnown,
       OverviewDialogsAssumption
<1>2. SaveInv => (job # NoJob /\ IsDone /\ job' = NoJob /\ Plan(job.form).closes
                    /\ job.base = job.form.vm /\ ~HostGoesFirst(job.form.values)
                  => SavedAs(job.form.values, conf))
    BY DEF SaveInv, Progress, BegunOnItsOwn, Asked
<1>. QED BY <1>1, <1>2, MemoryInit, MemoryNext, BootInit, BootNext, SaveNext, RunningStaysKnown,
            PTL DEF Spec, ClosesOnlyWhenSaved
=============================================================================
