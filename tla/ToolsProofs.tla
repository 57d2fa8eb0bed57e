------------------------------ MODULE ToolsProofs ------------------------------
(***************************************************************************)
(* The tools around a deployment: the restart settings of a unit, the      *)
(* comparison of a container with its request, the schedule of key         *)
(* rotations, the validation of inputs, the publication of images and the  *)
(* life of a password.                                                     *)
(***************************************************************************)
EXTENDS DeployTools, ContainerSpecProofs, FiniteSetTheorems

-----------------------------------------------------------------------------
(***************************************************************************)
(* Restart settings.                                                       *)
(***************************************************************************)

\* What // gives: the quotient, at most once more than fits.
LEMMA QuotientFits ==
    ASSUME NEW t \in Nat, NEW r \in Nat \ {0}
    PROVE  t \div r \in Int /\ r * (t \div r) <= t
<1>1. t \div r \in Int /\ t % r \in 0..(r - 1) /\ t = (r * (t \div r)) + (t % r)
  OBVIOUS
<1>2. QED
  BY <1>1

\* SystemdWorker.__init__ computes RestartSec from client_timeout and
\* restart_retries.  Its comment demands that duration times retries stay below the
\* time-out, which is StartLimitInterval: otherwise a service that cannot start is
\* restarted for ever and never counts as failed.
THEOREM RestartsReachTheLimit ==
    ASSUME NEW p, p.client_timeout \in Nat, p.restart_retries \in Nat \ {0}
    PROVE  RestartSec(p) * p.restart_retries < p.client_timeout
<1> DEFINE t == p.client_timeout
           r == p.restart_retries
           q == t \div r
<1>1. q \in Int /\ r * q <= t
  BY QuotientFits
<1>2. t \in Nat /\ r \in Nat \ {0}
  OBVIOUS
<1> HIDE DEF q, t, r
<1>3. (q - 1) * r = r * q - r
  BY <1>1, <1>2
<1>4. (q - 1) * r < t
  BY <1>1, <1>2, <1>3
<1>5. QED
  BY <1>4 DEF RestartSec, q, t, r

-----------------------------------------------------------------------------
(***************************************************************************)
(* The schedule of key rotations.                                          *)
(***************************************************************************)

\* A product grows with its factor.
LEMMA Grows ==
  ASSUME NEW m \in Nat, NEW a \in Nat, NEW b \in Nat, a <= b
  PROVE  m * a <= m * b /\ m * a \in Nat /\ m * b \in Nat
<1>1. PICK n \in Nat : b = a + n
  BY b - a \in Nat, b = a + (b - a)
<1>2. m * b = m * a + m * n
  BY <1>1
<1>3. m * n \in Nat /\ m * a \in Nat
  OBVIOUS
<1> QED
  BY <1>2, <1>3

\* The turns of different hosts are different, in whatever round they are.
LEMMA TurnsDiffer ==
  ASSUME NEW H \in Nat \ {0}, NEW g \in 0..(H - 1), NEW h \in 0..(H - 1),
         NEW i \in Nat, NEW j \in Nat, g + H * i = h + H * j
  PROVE  g = h
<1>1. ASSUME NEW k \in Nat, NEW l \in Nat, k < l PROVE H * k + H <= H * l
  <2>1. H * (k + 1) <= H * l
    BY <1>1, Grows, k + 1 \in Nat
  <2>2. H * (k + 1) = H * k + H
    OBVIOUS
  <2> QED
    BY <2>1, <2>2
<1>2. H * i \in Nat /\ H * j \in Nat
  BY Grows
<1>3. CASE i = j
  BY <1>2, <1>3
<1>4. CASE i < j
  BY <1>1, <1>2, <1>4
<1>5. CASE j < i
  BY <1>1, <1>2, <1>5
<1> QED
  BY <1>3, <1>4, <1>5

\* Turn a of a schedule with the given interval comes at least an interval before
\* every later one.
LEMMA TurnsApart ==
  ASSUME NEW m \in Nat \ {0}, NEW a \in Nat, NEW b \in Nat, m * a <= m * b
  PROVE  a = b \/ m * b - m * a >= m
<1>1. CASE a < b
  <2>1. m * (a + 1) <= m * b
    BY <1>1, Grows, a + 1 \in Nat
  <2>2. m * (a + 1) = m * a + m /\ m * a \in Nat /\ m * b \in Nat
    BY Grows
  <2> QED
    BY <2>1, <2>2
<1>2. CASE b < a
  <2>1. m * (b + 1) <= m * a
    BY <1>2, Grows, b + 1 \in Nat
  <2>2. m * (b + 1) = m * b + m /\ m * a \in Nat /\ m * b \in Nat
    BY Grows
  <2> QED
    BY <2>1, <2>2
<1> QED
  BY <1>1, <1>2

\* cron runs an entry of a table for an hour or a day at the minute that it was
\* made for.
LEMMA RunsOnTime ==
  ASSUME NEW span \in {HOUR_SPAN, DAY_SPAN}, NEW t \in Nat, t < span
  PROVE  RunsAt(Entry(t, span)) = t
<1>1. HOUR_SPAN = 60 /\ DAY_SPAN = 1440 /\ WEEK_SPAN = 10080
  BY DEF HOUR_SPAN, DAY_SPAN, WEEK_SPAN
<1>2. CASE span = HOUR_SPAN
  <2>1. Entry(t, span) = [min |-> t, hour |-> Every, day |-> Every]
    BY <1>1, <1>2 DEF Entry
  <2> QED
    BY <2>1 DEF RunsAt
<1>3. CASE span = DAY_SPAN
  <2>1. Entry(t, span) = [min |-> t % HOUR_SPAN, hour |-> t \div HOUR_SPAN, day |-> Every]
    BY <1>1, <1>3 DEF Entry
  <2>2. t \in Nat /\ t < 1440
    BY <1>1, <1>3
  <2>3. t % 60 \in 0..59 /\ t \div 60 \in Int /\ t = (60 * (t \div 60)) + (t % 60)
    BY <2>2
  <2>4. t \div 60 # 99
    BY <2>2, <2>3
  <2>5. RunsAt(Entry(t, span)) = (t % 60) + ((t \div 60) * 60) + 0
    BY <1>1, <2>1, <2>4 DEF RunsAt, Every
  <2> QED
    BY <2>3, <2>5
<1> QED
  BY <1>2, <1>3

\* Every start of a host is one of its turns, and leaves an interval before the end.
LEMMA StartsAreTurns ==
  ASSUME NEW H \in Nat \ {0}, NEW m \in Nat \ {0}, NEW host \in 0..(H - 1), NEW span \in Nat,
         NEW t \in Starts(host, H, m, span)
  PROVE  \E i \in Nat : t = m * (host + H * i) /\ t + m <= span
<1>1. PICK i \in 0..(span \div (m * H)) : t = m * host + m * H * i /\ t + m <= span
  BY DEF Starts
<1>2. m * H \in Nat \ {0}
  OBVIOUS
<1>3. i \in Nat
  BY <1>1
<1>4. m * host + m * H * i = m * (host + H * i)
  BY <1>3
<1> QED
  BY <1>1, <1>3, <1>4

\* The generator's tables, of a round that fits into a day.
LEMMA TablesApart ==
  ASSUME NEW H \in Nat \ {0}, NEW m \in Nat \ {0}, H * m <= DAY_SPAN
  PROVE  Apart([h \in 0..(H - 1) |-> generate(h, H, m)], Span(H, m), m)
<1> DEFINE S == Span(H, m)
           T == [h \in 0..(H - 1) |-> generate(h, H, m)]
<1>1. S \in {HOUR_SPAN, DAY_SPAN} /\ S \in Nat
  <2>1. m * H = H * m /\ m * H \in Nat
    OBVIOUS
  <2>2. ~(m * H > DAY_SPAN)
    BY <2>1 DEF DAY_SPAN, HOUR_SPAN
  <2>3. S \in {HOUR_SPAN, DAY_SPAN}
    BY <2>2 DEF Span
  <2> QED
    BY <2>3 DEF DAY_SPAN, HOUR_SPAN
<1>2. ASSUME NEW h \in 0..(H - 1), NEW c \in T[h]
      PROVE  \E i \in Nat : /\ c = Entry(m * (h + H * i), S) /\ RunsAt(c) = m * (h + H * i)
                            /\ m * (h + H * i) + m <= S
  <2>1. PICK t \in Starts(h, H, m, S) : c = Entry(t, S)
    BY <1>2 DEF generate
  <2>2. PICK i \in Nat : t = m * (h + H * i) /\ t + m <= S
    BY <1>1, <2>1, StartsAreTurns
  <2>3. h \in Nat /\ h + H * i \in Nat
    OBVIOUS
  <2>4. t \in Nat
    BY <2>2, <2>3, Grows
  <2>5. t < S
    BY <1>1, <2>2, <2>4
  <2>6. RunsAt(c) = t
    BY <1>1, <2>1, <2>4, <2>5, RunsOnTime
  <2> QED
    BY <2>1, <2>2, <2>6
<1>3. SUFFICES ASSUME NEW g \in 0..(H - 1), NEW h \in 0..(H - 1), NEW c \in T[g], NEW d \in T[h],
                      <<g, c>> # <<h, d>>, RunsAt(c) <= RunsAt(d)
               PROVE  /\ RunsAt(d) - RunsAt(c) >= m
                      /\ S - (RunsAt(d) - RunsAt(c)) >= m
  BY DEF Apart
<1>4. PICK i \in Nat : /\ c = Entry(m * (g + H * i), S) /\ RunsAt(c) = m * (g + H * i)
                       /\ m * (g + H * i) + m <= S
  BY <1>2
<1>5. PICK j \in Nat : /\ d = Entry(m * (h + H * j), S) /\ RunsAt(d) = m * (h + H * j)
                       /\ m * (h + H * j) + m <= S
  BY <1>2
<1> DEFINE a == g + H * i
           b == h + H * j
<1>6. a \in Nat /\ b \in Nat
  OBVIOUS
<1>7. a # b
  <2> SUFFICES ASSUME a = b PROVE FALSE
    OBVIOUS
  <2>1. g = h
    BY TurnsDiffer
  <2>2. c = d
    BY <1>4, <1>5
  <2> QED
    BY <1>3, <2>1, <2>2
<1> HIDE DEF a, b, S, T
<1>8. m * a \in Nat /\ m * b \in Nat
  BY <1>6, Grows
<1>9. m * a <= m * b /\ RunsAt(c) = m * a /\ RunsAt(d) = m * b /\ m * b + m <= S
  BY <1>3, <1>4, <1>5 DEF a, b
<1>10. m * b - m * a >= m
  BY <1>6, <1>7, <1>9, TurnsApart
<1> DEFINE x == m * a
           y == m * b
<1>11. x \in Nat /\ y \in Nat /\ y - x >= m /\ y + m <= S
  BY <1>8, <1>9, <1>10
<1>12. RunsAt(c) = x /\ RunsAt(d) = y
  BY <1>9
<1> HIDE DEF x, y
<1> QED
  BY <1>1, <1>11, <1>12

-----------------------------------------------------------------------------
(***************************************************************************)
(* The cases: their outcome, once computed, is that of the function.       *)
(***************************************************************************)

Verdict(j) ==
    check_container_differs(j.engine, j.new, Inspect(j.engine, j.old, 1), 1, "running")

CaseInv ==
    /\ job \in Cases
    /\ Computed("compare") => out = {Verdict(job)}
    /\ Computed("cron") => out = [h \in 0..(job.number - 1) |-> generate(h, job.number, job.mins)]
    /\ Computed("validate") => out = validate_config(job.data)

\* A case is computed once, and nothing else writes its outcome.
LEMMA Outcomes == Spec => []CaseInv
<1>1. Init => CaseInv
  BY DEF Init, CaseInv, Computed
<1>2. CaseInv /\ [Next]_vars => CaseInv'
  <2> SUFFICES ASSUME CaseInv, [Next]_vars PROVE CaseInv'
    OBVIOUS
  <2>1. CASE CompareContainer
    BY <2>1 DEF CompareContainer, Compute, CaseInv, Computed, Verdict
  <2>2. CASE ScheduleRotations
    BY <2>2 DEF ScheduleRotations, Compute, CaseInv, Computed
  <2>3. CASE ValidateInputs
    BY <2>3 DEF ValidateInputs, Compute, CaseInv, Computed
  <2>4. CASE MergeIni
    BY <2>4 DEF MergeIni, Compute, CaseInv, Computed
  <2>5. CASE MergeYaml
    BY <2>5 DEF MergeYaml, Compute, CaseInv, Computed
  <2>6. CASE KeepPasswords \/ PrepareImages \/ UNCHANGED vars
    <3>1. UNCHANGED <<job, done, out>>
      BY <2>6 DEF KeepPasswords, PrepareImages, vars, caseVars
    <3> QED
      BY <3>1 DEF CaseInv, Computed, Verdict
  <2> QED
    BY <2>1, <2>2, <2>3, <2>4, <2>5, <2>6 DEF Next
<1> QED
  BY <1>1, <1>2, PTL DEF Spec

\* check_container_differs of either engine recreates a container exactly when the
\* new request would give another container in an option that it speaks of, or asks
\* for another state than running.
THEOREM ComparisonIsExact == Spec => []CompareIsExact
<1>1. CaseInv => CompareIsExact
  <2> SUFFICES ASSUME CaseInv, Computed("compare"), Supported(job.engine, job.new),
                      Supported(job.engine, job.old)
               PROVE  out = {Drift(job.engine, job.new, job.old, 1) \/ job.new.state # "running"}
    BY DEF CompareIsExact
  <2>1. job.tool = "compare" /\ job.engine \in Engines /\ RequestOK(job.new) /\ RequestOK(job.old)
    BY CasesAssumption DEF CaseInv, Computed
  <2>2. Verdict(job) <=> Drift(job.engine, job.new, job.old, 1) \/ job.new.state # "running"
    BY <2>1, ComparisonExact, IdAssumption DEF Fits, Verdict
  <2>3. Verdict(job) \in BOOLEAN
    BY DEF Verdict, check_container_differs
  <2>4. out = {Verdict(job)}
    BY DEF CaseInv
  <2>5. Verdict(job) = (Drift(job.engine, job.new, job.old, 1) \/ job.new.state # "running")
    BY <2>2, <2>3, Zenon
  <2> QED
    BY <2>4, <2>5, Zenon
<1> QED
  BY <1>1, Outcomes, PTL

\* The Fernet cron tables rotate no sooner than the interval asks, on any two hosts,
\* as long as a round of all hosts fits into a day.
THEOREM TablesNeverOverRotate == Spec => []NoOverRotation
<1>1. CaseInv => NoOverRotation
  <2> SUFFICES ASSUME CaseInv, Computed("cron"), job.number * job.mins <= DAY_SPAN
               PROVE  Apart(out, Span(job.number, job.mins), job.mins)
    BY DEF NoOverRotation
  <2>1. job.number \in Nat \ {0} /\ job.mins \in Nat \ {0}
    BY CasesAssumption DEF CaseInv, Computed
  <2>2. out = [h \in 0..(job.number - 1) |-> generate(h, job.number, job.mins)]
    BY DEF CaseInv
  <2> QED
    BY <2>1, <2>2, TablesApart
<1> QED
  BY <1>1, Outcomes, PTL
-----------------------------------------------------------------------------
(***************************************************************************)
(* The validation of inputs.                                               *)
(***************************************************************************)

\* The positions and the elements of a list.
LEMMA ListParts ==
  ASSUME NEW S, NEW s \in Seq(S)
  PROVE  /\ \A i \in DOMAIN s : s[i] \in S
         /\ \A i \in DOMAIN s : \A j \in 1..(i - 1) : j \in DOMAIN s /\ j # i
         /\ \A i, j \in DOMAIN s : i # j => i \in 1..(j - 1) \/ j \in 1..(i - 1)
OBVIOUS

\* What validate_config has checked of a node, given the nodes before it.
Checked(node, before, computes) ==
    /\ \A b \in before : NameOf(b) # NameOf(node)
    /\ ~node.nova_hostname.padded /\ node.nova_hostname.text \in computes
    /\ node.network_interface = "noop" /\ node.desired_provision_state = "manageable"
    /\ Fields(node.driver) # {} /\ Fields(node.driver) \subseteq node.info
    /\ \A i \in DOMAIN node.ports : node.ports[i].valid
    /\ \A i, j \in DOMAIN node.ports : i # j => PortKey(node.ports[i]) # PortKey(node.ports[j])
    /\ \A b \in before, i \in DOMAIN node.ports : \A j \in DOMAIN b.ports :
          PortKey(node.ports[i]) # PortKey(b.ports[j])

\* A node without errors is checked.
LEMMA NodeChecked ==
  ASSUME NEW node, NEW before, NEW computes, NodeErrors(node, before, computes) = {}
  PROVE  Checked(node, before, computes)
<1>1. /\ "duplicate node name" \notin NodeErrors(node, before, computes)
      /\ "nova_hostname absent" \notin NodeErrors(node, before, computes)
      /\ "network_interface" \notin NodeErrors(node, before, computes)
      /\ "provision state" \notin NodeErrors(node, before, computes)
      /\ "driver" \notin NodeErrors(node, before, computes)
      /\ "driver_info" \notin NodeErrors(node, before, computes)
      /\ "invalid MAC" \notin NodeErrors(node, before, computes)
      /\ "duplicate MAC" \notin NodeErrors(node, before, computes)
  OBVIOUS
<1>2. \A b \in before : NameOf(b) # NameOf(node)
  BY <1>1 DEF NodeErrors
<1>3. ~node.nova_hostname.padded /\ node.nova_hostname.text \in computes
  BY <1>1 DEF NodeErrors
<1>4. node.network_interface = "noop" /\ node.desired_provision_state = "manageable"
  BY <1>1 DEF NodeErrors
<1>5. Fields(node.driver) # {} /\ Fields(node.driver) \subseteq node.info
  BY <1>1 DEF NodeErrors
<1>6. \A i \in DOMAIN node.ports : node.ports[i].valid
  BY <1>1 DEF NodeErrors
<1>7. /\ \A i, j \in DOMAIN node.ports : i # j => PortKey(node.ports[i]) # PortKey(node.ports[j])
      /\ \A b \in before, i \in DOMAIN node.ports : \A j \in DOMAIN b.ports :
            PortKey(node.ports[i]) # PortKey(b.ports[j])
  BY <1>1 DEF NodeErrors
<1> QED
  BY <1>2, <1>3, <1>4, <1>5, <1>6, <1>7 DEF Checked

Before(nodes, i) == {nodes[j] : j \in 1..(i - 1)}

\* Every node of a node list that validate_config accepts is checked against the nodes
\* before it.
LEMMA ListChecked ==
  ASSUME NEW data, validate_config(data) = {}, NEW i \in DOMAIN data.nodes
  PROVE  Checked(data.nodes[i], Before(data.nodes, i), data.computes)
<1> DEFINE computes == IF data.section THEN data.computes ELSE {}
           E(k) == NodeErrors(data.nodes[k], {data.nodes[j] : j \in 1..(k - 1)}, computes)
<1>1. data.section
  BY DEF validate_config
<1>2. UNION {E(k) : k \in DOMAIN data.nodes} = {}
  BY DEF validate_config
<1> HIDE DEF E
<1>3. E(i) = {}
  BY <1>2
<1>4. NodeErrors(data.nodes[i], Before(data.nodes, i), data.computes) = {}
  BY <1>1, <1>3 DEF E, Before
<1> QED
  BY <1>4, NodeChecked

\* The node as the role's Ironic module keeps it.
Normalized(node) ==
    [ok |-> TRUE, name |-> node.name.text, host |-> node.nova_hostname.text,
     driver |-> Lower(node.driver), ports |-> [i \in DOMAIN node.ports |-> PortKey(node.ports[i])]]

\* A checked node with a plain name passes the checks of the role's Ironic module,
\* which knows its ports by the same keys.
LEMMA NodeNormalized ==
  ASSUME NEW node \in NodeType, NEW before, NEW computes, Checked(node, before, computes),
         "" \notin computes, node.name.text # ""
  PROVE  normalize_spec(node) = Normalized(node) /\ node.nova_hostname.text \in computes
<1> DEFINE macs == [i \in DOMAIN node.ports |-> [node.ports[i] EXCEPT !.upper = FALSE]]
           MAC == [addr : STRING, upper : BOOLEAN, valid : BOOLEAN]
<1>1. macs = [i \in DOMAIN node.ports |-> PortKey(node.ports[i])]
  BY DEF PortKey
<1>2. Fields(node.driver) # {} /\ Fields(node.driver) \subseteq node.info
      /\ node.network_interface = "noop" /\ node.desired_provision_state = "manageable"
      /\ node.nova_hostname.text \in computes
  BY DEF Checked
<1>3. Lower(node.driver) = node.driver
  BY <1>2 DEF Fields, Lower
<1>4. /\ \A i \in DOMAIN node.ports : node.ports[i] \in MAC
      /\ \A i \in DOMAIN node.ports : \A j \in 1..(i - 1) : j \in DOMAIN node.ports /\ j # i
  <2>1. node.ports \in Seq(MAC)
    BY DEF NodeType
  <2> QED
    BY <2>1, ListParts
<1>5. \A i \in DOMAIN macs : macs[i].valid
  <2> SUFFICES ASSUME NEW i \in DOMAIN node.ports PROVE macs[i].valid
    OBVIOUS
  <2>1. node.ports[i] \in MAC /\ node.ports[i].valid
    BY <1>4 DEF Checked
  <2> QED
    BY <2>1
<1>6. \A i \in DOMAIN macs : \A j \in 1..(i - 1) : macs[i] # macs[j]
  <2> SUFFICES ASSUME NEW i \in DOMAIN node.ports, NEW j \in 1..(i - 1) PROVE macs[i] # macs[j]
    OBVIOUS
  <2>1. j \in DOMAIN node.ports /\ j # i
    BY <1>4, Zenon
  <2>2. PortKey(node.ports[i]) # PortKey(node.ports[j])
    BY <2>1 DEF Checked
  <2> HIDE DEF macs
  <2> QED
    BY <1>1, <2>1, <2>2
<1>7. node.name.text # "" /\ node.nova_hostname.text # ""
  BY <1>2
<1> HIDE DEF macs
<1>8. normalize_spec(node) =
        [ok |-> TRUE, name |-> node.name.text, host |-> node.nova_hostname.text,
         driver |-> Lower(node.driver), ports |-> macs]
  BY <1>2, <1>3, <1>5, <1>6, <1>7 DEF normalize_spec, macs
<1> QED
  BY <1>1, <1>2, <1>8 DEF Normalized

\* A checked node shares neither its name nor a port with a node before it, once both
\* are normalised.
LEMMA NodesApart ==
  ASSUME NEW node \in NodeType, NEW b \in NodeType, NEW before, b \in before, NEW computes,
         Checked(node, before, computes),
         node.name.text # "", b.name.text # "", ~node.name.padded, ~b.name.padded
  PROVE  /\ Normalized(node).name # Normalized(b).name
         /\ Range(Normalized(node).ports) \cap Range(Normalized(b).ports) = {}
<1>1. NameOf(b) # NameOf(node)
  BY DEF Checked
<1>2. \A i \in DOMAIN node.ports : \A j \in DOMAIN b.ports :
        PortKey(node.ports[i]) # PortKey(b.ports[j])
  BY DEF Checked
<1>3. NameOf(node) = node.name /\ NameOf(b) = b.name
  BY DEF NameOf
<1>4. node.name \in Text /\ b.name \in Text
  BY DEF NodeType
<1>5. node.name.padded = FALSE /\ b.name.padded = FALSE
  BY <1>4 DEF Text
<1>6. node.name.text # b.name.text
  <2>1. node.name = [text |-> node.name.text, padded |-> FALSE]
    BY <1>4, <1>5 DEF Text
  <2>2. b.name = [text |-> b.name.text, padded |-> FALSE]
    BY <1>4, <1>5 DEF Text
  <2> QED
    BY <1>1, <1>3, <2>1, <2>2, Zenon
<1>7. Range(Normalized(node).ports) \cap Range(Normalized(b).ports) = {}
  <2> DEFINE f == [i \in DOMAIN node.ports |-> PortKey(node.ports[i])]
             g == [i \in DOMAIN b.ports |-> PortKey(b.ports[i])]
  <2>1. Normalized(node).ports = f /\ Normalized(b).ports = g
    BY DEF Normalized
  <2>2. \A i \in DOMAIN f : \A j \in DOMAIN g : f[i] # g[j]
    BY <1>2
  <2> HIDE DEF f, g
  <2>3. Range(f) \cap Range(g) = {}
    BY <2>2 DEF Range
  <2> QED
    BY <2>1, <2>3
<1> QED
  BY <1>6, <1>7 DEF Normalized

\* Inputs that `powerops validate` accepts are deployable: every node with a plain
\* name passes the checks of the role's Ironic module, on a host of the inventory,
\* and no two nodes or ports collide once the module has normalised them.
THEOREM AcceptedInputsDeploy == Spec => []ValidatedInputsDeploy
<1>1. CaseInv => ValidatedInputsDeploy
  <2> DEFINE nodes == job.data.nodes
             computes == job.data.computes
             n == [i \in DOMAIN nodes |-> normalize_spec(nodes[i])]
  <2> SUFFICES ASSUME CaseInv, Computed("validate"), out = {},
                      \A i \in DOMAIN nodes : nodes[i].name.text # "" /\ ~nodes[i].name.padded
               PROVE  /\ \A i \in DOMAIN n : n[i].ok
                      /\ \A i \in DOMAIN n : n[i].host \in computes
                      /\ \A i \in DOMAIN n : \A j \in DOMAIN n \ {i} :
                            n[i].name # n[j].name /\ Range(n[i].ports) \cap Range(n[j].ports) = {}
    BY DEF ValidatedInputsDeploy
  <2>1. DataOK(job.data) /\ validate_config(job.data) = {}
    BY CasesAssumption DEF CaseInv, Computed
  <2>2. nodes \in Seq(NodeType) /\ "" \notin computes
    BY <2>1 DEF DataOK
  <2>3. \A i \in DOMAIN nodes : Checked(nodes[i], Before(nodes, i), computes)
    BY <2>1, ListChecked
  <2> HIDE DEF nodes, computes
  <2>4. /\ \A i \in DOMAIN nodes : nodes[i] \in NodeType
        /\ \A i, j \in DOMAIN nodes : i # j => i \in 1..(j - 1) \/ j \in 1..(i - 1)
    BY <2>2, ListParts
  <2>5. ASSUME NEW i \in DOMAIN nodes
        PROVE  n[i] = Normalized(nodes[i]) /\ nodes[i].nova_hostname.text \in computes
    BY <2>2, <2>3, <2>4, NodeNormalized
  <2>6. DOMAIN n = DOMAIN nodes
    OBVIOUS
  <2> HIDE DEF n
  <2>7. ASSUME NEW i \in DOMAIN nodes, NEW j \in DOMAIN nodes, j \in 1..(i - 1)
        PROVE  n[i].name # n[j].name /\ Range(n[i].ports) \cap Range(n[j].ports) = {}
    <3>1. nodes[j] \in Before(nodes, i)
      BY <2>7 DEF Before
    <3>2. /\ Normalized(nodes[i]).name # Normalized(nodes[j]).name
          /\ Range(Normalized(nodes[i]).ports) \cap Range(Normalized(nodes[j]).ports) = {}
      BY <2>3, <2>4, <3>1, NodesApart
    <3> QED
      BY <2>5, <3>2
  <2>8. \A i \in DOMAIN nodes : n[i].ok /\ n[i].host \in computes
    <3> SUFFICES ASSUME NEW i \in DOMAIN nodes PROVE n[i].ok /\ n[i].host \in computes
      OBVIOUS
    <3>1. n[i] = Normalized(nodes[i]) /\ nodes[i].nova_hostname.text \in computes
      BY <2>5
    <3>2. Normalized(nodes[i]).ok /\ Normalized(nodes[i]).host = nodes[i].nova_hostname.text
      BY DEF Normalized
    <3> QED
      BY <3>1, <3>2
  <2>9. ASSUME NEW i \in DOMAIN nodes, NEW j \in DOMAIN nodes, i # j
        PROVE  n[i].name # n[j].name /\ Range(n[i].ports) \cap Range(n[j].ports) = {}
    <3>1. i \in 1..(j - 1) \/ j \in 1..(i - 1)
      BY <2>4, <2>9, Zenon
    <3>2. Range(n[i].ports) \cap Range(n[j].ports) = Range(n[j].ports) \cap Range(n[i].ports)
      OBVIOUS
    <3> QED
      BY <2>7, <3>1, <3>2
  <2> QED
    BY <2>6, <2>8, <2>9
<1> QED
  BY <1>1, Outcomes, PTL
-----------------------------------------------------------------------------
(***************************************************************************)
(* The images: what a build leaves behind, and what a publish may rely on. *)
(***************************************************************************)

\* Wheels come before images, inspections before pushes.
Early(step) == step[1] \in {"wheel", "inspect"}

Ordered(s) == \A i, j \in DOMAIN s : i < j /\ Early(s[j]) => Early(s[i])

BuildTasks == ({"wheel"} \X Kinds) \cup ({"image"} \X Services)
PublishTasks == {"inspect", "push"} \X Services

\* What a command knows once its first step is done.
LEMMA Advance ==
  ASSUME NEW T, NEW s \in Seq(T), s # <<>>, Ordered(s)
  PROVE  /\ Head(s) \in T /\ Tail(s) \in Seq(T) /\ Ordered(Tail(s))
         /\ Range(s) = {Head(s)} \cup Range(Tail(s)) /\ Range(s) \subseteq T
         /\ Early(Head(s)) \/ \A x \in Range(s) : ~Early(x)
         /\ Tail(s) = <<>> => Range(Tail(s)) = {}
<1> DEFINE t == Tail(s)
           n == Len(s)
<1>1. /\ n \in Nat \ {0} /\ DOMAIN s = 1..n /\ Head(s) = s[1] /\ Head(s) \in T
      /\ \A i \in 1..n : s[i] \in T
  OBVIOUS
<1>2. t \in Seq(T) /\ DOMAIN t = 1..(n - 1) /\ \A i \in 1..(n - 1) : t[i] = s[i + 1]
  OBVIOUS
<1> HIDE DEF t, n
<1>3. Ordered(t)
  <2> SUFFICES ASSUME NEW i \in DOMAIN t, NEW j \in DOMAIN t, i < j, Early(t[j]) PROVE Early(t[i])
    BY DEF Ordered
  <2>1. i + 1 \in DOMAIN s /\ j + 1 \in DOMAIN s /\ i + 1 < j + 1 /\ t[i] = s[i + 1] /\ t[j] = s[j + 1]
    BY <1>1, <1>2
  <2> QED
    BY <2>1 DEF Ordered
<1>4. Range(s) = {Head(s)} \cup Range(t)
  <2>1. \A i \in 1..n : i = 1 \/ (i - 1 \in 1..(n - 1) /\ t[i - 1] = s[i])
    BY <1>1, <1>2
  <2>2. 1 \in 1..n /\ \A i \in 1..(n - 1) : i + 1 \in 1..n
    BY <1>1
  <2>3. \A x \in Range(s) : x \in {Head(s)} \cup Range(t)
    <3> TAKE x \in Range(s)
    <3>1. PICK i \in 1..n : x = s[i]
      BY <1>1 DEF Range
    <3>2. CASE i = 1
      BY <1>1, <3>1, <3>2
    <3>3. CASE i # 1
      BY <1>2, <2>1, <3>1, <3>3 DEF Range
    <3> QED
      BY <3>2, <3>3
  <2>4. \A x \in {Head(s)} \cup Range(t) : x \in Range(s)
    BY <1>1, <1>2, <2>2 DEF Range
  <2> QED
    BY <2>3, <2>4
<1>5. Range(s) \subseteq T
  BY <1>1 DEF Range
<1>6. Early(s[1]) \/ \A x \in Range(s) : ~Early(x)
  <2> SUFFICES ASSUME NEW i \in 1..n, Early(s[i]) PROVE Early(s[1])
    BY <1>1 DEF Range
  <2>1. i = 1 \/ 1 < i
    BY <1>1
  <2> QED
    BY <1>1, <2>1 DEF Ordered
<1>7. t = <<>> => Range(t) = {}
  BY DEF Range
<1> QED
  BY <1>1, <1>2, <1>3, <1>4, <1>5, <1>6, <1>7 DEF t

\* The steps that one command runs for each service, in the order of the services.
LEMMA StepsOfServices ==
  ASSUME NEW what
  PROVE  /\ ByService(what) \in Seq({what} \X Services)
         /\ Len(ByService(what)) = 4 /\ DOMAIN ByService(what) = 1..4
         /\ \A s \in Services : \E i \in 1..4 : ByService(what)[i] = <<what, s>>
<1>1. Len(IMAGE_SERVICES) = 4
  BY DEF IMAGE_SERVICES
<1>2. ByService(what) = [i \in 1..4 |-> <<what, IMAGE_SERVICES[i]>>]
  BY <1>1 DEF ByService
<1>3. /\ IMAGE_SERVICES[1] = "mistral-api" /\ IMAGE_SERVICES[2] = "mistral-engine"
      /\ IMAGE_SERVICES[3] = "mistral-executor" /\ IMAGE_SERVICES[4] = "masakari-engine"
  BY DEF IMAGE_SERVICES
<1>4. \A i \in 1..4 : IMAGE_SERVICES[i] \in Services
  BY <1>3 DEF Services, MistralServices
<1>5. \A s \in Services : \E i \in 1..4 : IMAGE_SERVICES[i] = s
  BY <1>3 DEF Services, MistralServices
<1>6. ByService(what) \in Seq({what} \X Services)
  BY <1>2, <1>4
<1> HIDE DEF IMAGE_SERVICES
<1> QED
  BY <1>2, <1>5, <1>6

\* Early steps before late ones are ordered, and none is lost.
LEMMA InOrder ==
  ASSUME NEW S, NEW a \in Seq(S), NEW b \in Seq(S),
         \A i \in DOMAIN a : Early(a[i]), \A i \in DOMAIN b : ~Early(b[i])
  PROVE  /\ a \o b \in Seq(S) /\ Ordered(a \o b)
         /\ \A i \in DOMAIN a : a[i] \in Range(a \o b)
         /\ \A i \in DOMAIN b : b[i] \in Range(a \o b)
<1> DEFINE m == Len(a)
           n == Len(b)
           c == a \o b
<1>1. m \in Nat /\ n \in Nat /\ DOMAIN a = 1..m /\ DOMAIN b = 1..n
  OBVIOUS
<1>2. c \in Seq(S) /\ DOMAIN c = 1..(m + n)
  OBVIOUS
<1>3. \A i \in 1..(m + n) : c[i] = IF i <= m THEN a[i] ELSE b[i - m]
  OBVIOUS
<1> HIDE DEF m, n, c
<1>4. \A i \in 1..m : i \in 1..(m + n) /\ c[i] = a[i]
  BY <1>1, <1>3
<1>5. \A i \in 1..n : m + i \in 1..(m + n) /\ c[m + i] = b[i]
  <2> TAKE i \in 1..n
  <2>1. m + i \in 1..(m + n) /\ ~(m + i <= m) /\ (m + i) - m = i
    BY <1>1
  <2> QED
    BY <1>3, <2>1
<1>6. \A i \in 1..(m + n) : Early(c[i]) => i <= m
  <2> TAKE i \in 1..(m + n)
  <2>1. ASSUME ~(i <= m) PROVE ~Early(c[i])
    <3>1. i - m \in 1..n
      BY <1>1, <2>1
    <3> QED
      BY <1>1, <1>3, <2>1, <3>1
  <2> QED
    BY <2>1
<1>7. Ordered(c)
  <2> SUFFICES ASSUME NEW i \in 1..(m + n), NEW j \in 1..(m + n), i < j, Early(c[j])
               PROVE  Early(c[i])
    BY <1>2 DEF Ordered
  <2>1. j <= m
    BY <1>6
  <2>2. i \in 1..m
    BY <1>1, <2>1
  <2> QED
    BY <1>1, <1>4, <2>2
<1>8. /\ \A i \in DOMAIN a : a[i] \in Range(c)
      /\ \A i \in DOMAIN b : b[i] \in Range(c)
  BY <1>1, <1>2, <1>4, <1>5 DEF Range
<1> QED
  BY <1>2, <1>7, <1>8 DEF c

\* The steps of the two commands.
LEMMA CommandSteps ==
  /\ BuildSteps \in Seq(BuildTasks) /\ Ordered(BuildSteps)
  /\ \A k \in Kinds : <<"wheel", k>> \in Range(BuildSteps)
  /\ \A s \in Services : <<"image", s>> \in Range(BuildSteps)
  /\ PublishSteps \in Seq(PublishTasks) /\ Ordered(PublishSteps)
  /\ \A s \in Services : <<"inspect", s>> \in Range(PublishSteps)
<1> DEFINE W == <<<<"wheel", "mistral">>, <<"wheel", "masakari">>>>
<1>1. /\ W \in Seq(BuildTasks) /\ DOMAIN W = 1..2
      /\ W[1] = <<"wheel", "mistral">> /\ W[2] = <<"wheel", "masakari">>
  BY DEF Kinds, BuildTasks
<1> HIDE DEF W
<1>2. \A i \in DOMAIN W : Early(W[i])
  BY <1>1 DEF Early
<1>3. ASSUME NEW what, NEW T, {what} \X Services \subseteq T
      PROVE  /\ ByService(what) \in Seq(T)
             /\ \A i \in DOMAIN ByService(what) : ByService(what)[i][1] = what
             /\ \A s \in Services : \E i \in DOMAIN ByService(what) : ByService(what)[i] = <<what, s>>
  <2>1. ByService(what) \in Seq({what} \X Services)
    BY StepsOfServices
  <2>2. \A i \in DOMAIN ByService(what) : ByService(what)[i] \in {what} \X Services
    BY <2>1, ListParts
  <2>3. ByService(what) \in Seq(T)
    BY <1>3, <2>1
  <2>4. \A s \in Services : \E i \in DOMAIN ByService(what) : ByService(what)[i] = <<what, s>>
    BY StepsOfServices
  <2> QED
    BY <2>2, <2>3, <2>4
<1> DEFINE I == ByService("image")
           V == ByService("inspect")
           P == ByService("push")
<1>4. /\ I \in Seq(BuildTasks) /\ \A i \in DOMAIN I : ~Early(I[i])
      /\ \A s \in Services : \E i \in DOMAIN I : I[i] = <<"image", s>>
  <2>1. {"image"} \X Services \subseteq BuildTasks
    BY DEF BuildTasks
  <2> QED
    BY <1>3, <2>1 DEF Early
<1>5. /\ V \in Seq(PublishTasks) /\ \A i \in DOMAIN V : Early(V[i])
      /\ \A s \in Services : \E i \in DOMAIN V : V[i] = <<"inspect", s>>
  <2>1. {"inspect"} \X Services \subseteq PublishTasks
    BY DEF PublishTasks
  <2> QED
    BY <1>3, <2>1 DEF Early
<1>6. P \in Seq(PublishTasks) /\ \A i \in DOMAIN P : ~Early(P[i])
  <2>1. {"push"} \X Services \subseteq PublishTasks
    BY DEF PublishTasks
  <2> QED
    BY <1>3, <2>1 DEF Early
<1>7. BuildSteps = W \o I /\ PublishSteps = V \o P
  BY DEF BuildSteps, PublishSteps, W
<1> HIDE DEF I, V, P
<1>8. /\ W \o I \in Seq(BuildTasks) /\ Ordered(W \o I)
      /\ \A i \in DOMAIN W : W[i] \in Range(W \o I)
      /\ \A i \in DOMAIN I : I[i] \in Range(W \o I)
  BY <1>1, <1>2, <1>4, InOrder
<1>9. /\ V \o P \in Seq(PublishTasks) /\ Ordered(V \o P)
      /\ \A i \in DOMAIN V : V[i] \in Range(V \o P)
  BY <1>5, <1>6, InOrder
<1>10. \A k \in Kinds : <<"wheel", k>> \in Range(W \o I)
  <2>0. 1 \in DOMAIN W /\ 2 \in DOMAIN W
    BY <1>1
  <2>1. W[1] \in Range(W \o I) /\ W[2] \in Range(W \o I)
    BY <1>8, <2>0, Zenon
  <2> QED
    BY <1>1, <2>1 DEF Kinds
<1>11. \A s \in Services : <<"image", s>> \in Range(W \o I)
  BY <1>4, <1>8
<1>12. \A s \in Services : <<"inspect", s>> \in Range(V \o P)
  BY <1>5, <1>9
<1> QED
  BY <1>7, <1>8, <1>9, <1>10, <1>11, <1>12
-----------------------------------------------------------------------------
(* The inductive invariant of the image commands.                          *)

Shape ==
    /\ DOMAIN dist = Kinds /\ DOMAIN wheel = Kinds
    /\ DOMAIN local = Services /\ DOMAIN registry = Services
    /\ \A k \in Kinds : IsFiniteSet(dist[k])

Left == Range(steps)

TasksInv == (steps \in Seq(BuildTasks) \/ steps \in Seq(PublishTasks)) /\ Ordered(steps)

\* While a build runs: a wheel still to be built, or in its context; an image still to
\* be built, or of that wheel; and no image before the last wheel.
BuildInv ==
    steps \in Seq(BuildTasks) /\ ~Idle =>
      /\ built = "running" /\ pushed = {}
      /\ \A k \in Kinds : <<"wheel", k>> \in Left \/ \E w \in dist[k] : w.edit = wheel[k]
      /\ \A s \in Services : <<"image", s>> \in Left \/ local[s] = wheel[KindOf(s)]
      /\ (\E x \in Left : Early(x)) => \A s \in Services : <<"image", s>> \in Left

\* While a publish runs: an image still to be inspected, or there; and no push before
\* the last inspection.
PublishInv ==
    steps \in Seq(PublishTasks) /\ ~Idle =>
      /\ \A s \in Services : hosts[s] = confirmed
      /\ \A s \in Services : <<"inspect", s>> \in Left \/ local[s] # NoImage
      /\ (\E x \in Left : Early(x)) => pushed = {}

\* After a build that returned, whatever is done next: an image is gone or of the
\* wheel that the build checked, and what is pushed from it is.
BuiltInv ==
    built = "ok" => \A s \in Services :
                      /\ local[s] = NoImage \/ local[s] = wheel[KindOf(s)]
                      /\ s \in pushed => registry[s] = wheel[KindOf(s)]

PushedInv == pushed # {} => \A s \in Services : hosts[s] = confirmed

ImageInv == Shape /\ TasksInv /\ BuildInv /\ PublishInv /\ BuiltInv /\ PushedInv

\* Nothing left to do fits every command.
LEMMA NothingLeft ==
  <<>> \in Seq(BuildTasks) /\ <<>> \in Seq(PublishTasks) /\ Ordered(<<>>)
BY DEF Ordered

\* The plugin of an image.
LEMMA KindsOfServices == \A s \in Services : KindOf(s) \in Kinds
BY DEF KindOf, Kinds, Services, MistralServices

\* No build is a publish.
LEMMA CommandsDiffer ==
  BuildSteps \notin Seq(PublishTasks) /\ PublishSteps \notin Seq(BuildTasks)
<1>1. Range(<<>>) = {}
  BY DEF Range
<1>2. "mistral" \in Kinds /\ "mistral-api" \in Services
  BY DEF Kinds, Services, MistralServices
<1>3. BuildSteps # <<>> /\ PublishSteps # <<>>
  BY <1>1, <1>2, CommandSteps
<1>4. \A T : \A s \in Seq(T) : s # <<>> => Head(s) \in T
  OBVIOUS
<1>5. Head(BuildSteps) \in BuildTasks /\ Head(PublishSteps) \in PublishTasks
  BY <1>3, <1>4, CommandSteps
<1>6. BuildTasks \cap PublishTasks = {}
  BY DEF BuildTasks, PublishTasks
<1> QED
  BY <1>3, <1>4, <1>5, <1>6

\* No command has run yet.
LEMMA ImageInitial == ImageInit => ImageInv
<1> SUFFICES ASSUME ImageInit PROVE ImageInv
  OBVIOUS
<1>1. Shape
  BY FS_EmptySet DEF ImageInit, Shape
<1>2. steps = <<>> /\ built = "none" /\ pushed = {}
  BY DEF ImageInit
<1> QED
  BY <1>1, <1>2, NothingLeft DEF ImageInv, TasksInv, BuildInv, PublishInv, BuiltInv, PushedInv, Idle

\* A command that starts, or refuses to.
LEMMA CommandStarts ==
  ASSUME ImageInv, build_images \/ \E confirm : publish_images(confirm)
  PROVE  ImageInv'
<1>1. CASE build_images
  <2>1. /\ pushed' = {} /\ UNCHANGED <<dist, wheel, local, registry, hosts, confirmed>>
        /\ \/ steps' = BuildSteps /\ built' = "running"
           \/ steps' = <<>> /\ built' = built
    BY <1>1 DEF build_images
  <2>2. Shape'
    BY <2>1 DEF ImageInv, Shape
  <2>3. BuiltInv' /\ PushedInv'
    BY <2>1 DEF ImageInv, BuiltInv, PushedInv
  <2>4. CASE steps' = BuildSteps /\ built' = "running"
    <3>1. TasksInv'
      BY <2>4, CommandSteps DEF TasksInv
    <3>2. BuildInv'
      BY <2>1, <2>4, CommandSteps DEF BuildInv, Left
    <3>3. steps' \notin Seq(PublishTasks)
      BY <2>4, CommandsDiffer
    <3> QED
      BY <2>2, <2>3, <3>1, <3>2, <3>3 DEF ImageInv, PublishInv
  <2>5. CASE steps' = <<>>
    BY <2>2, <2>3, <2>5, NothingLeft DEF ImageInv, TasksInv, BuildInv, PublishInv, Idle
  <2> QED
    BY <2>1, <2>4, <2>5
<1>2. ASSUME NEW confirm, publish_images(confirm) PROVE ImageInv'
  <2>1. /\ pushed' = {} /\ UNCHANGED <<dist, wheel, local, registry, hosts, built>>
        /\ confirmed' = confirm
        /\ \/ steps' = PublishSteps /\ \A s \in Services : hosts[s] = confirm
           \/ steps' = <<>>
    BY <1>2 DEF publish_images
  <2>2. Shape'
    BY <2>1 DEF ImageInv, Shape
  <2>3. BuiltInv' /\ PushedInv'
    BY <2>1 DEF ImageInv, BuiltInv, PushedInv
  <2>4. CASE steps' = PublishSteps /\ \A s \in Services : hosts[s] = confirm
    <3>1. TasksInv'
      BY <2>4, CommandSteps DEF TasksInv
    <3>2. PublishInv'
      BY <2>1, <2>4, CommandSteps DEF PublishInv, Left
    <3>3. steps' \notin Seq(BuildTasks)
      BY <2>4, CommandsDiffer
    <3> QED
      BY <2>2, <2>3, <3>1, <3>2, <3>3 DEF ImageInv, BuildInv
  <2>5. CASE steps' = <<>>
    BY <2>2, <2>3, <2>5, NothingLeft DEF ImageInv, TasksInv, BuildInv, PublishInv, Idle
  <2> QED
    BY <2>1, <2>4, <2>5
<1> QED
  BY <1>1, <1>2
\* What the first step of a running command leaves to the next.
LEMMA StepTaken ==
  ASSUME ImageInv, ~Idle
  PROVE  /\ \A T \in {BuildTasks, PublishTasks} :
              steps \in Seq(T) => Head(steps) \in T /\ Tail(steps) \in Seq(T) /\ Left \subseteq T
         /\ Ordered(Tail(steps))
         /\ Left = {Head(steps)} \cup Range(Tail(steps))
         /\ Early(Head(steps)) \/ \A x \in Left : ~Early(x)
         /\ Tail(steps) = <<>> => Range(Tail(steps)) = {}
<1>1. steps # <<>> /\ Ordered(steps) /\ (steps \in Seq(BuildTasks) \/ steps \in Seq(PublishTasks))
  BY DEF ImageInv, TasksInv, Idle
<1>2. PICK T \in {BuildTasks, PublishTasks} : steps \in Seq(T)
  BY <1>1
<1>3. \A U : steps \in Seq(U) =>
        /\ Head(steps) \in U /\ Tail(steps) \in Seq(U) /\ Ordered(Tail(steps))
        /\ Range(steps) = {Head(steps)} \cup Range(Tail(steps)) /\ Range(steps) \subseteq U
        /\ Early(Head(steps)) \/ \A x \in Range(steps) : ~Early(x)
        /\ Tail(steps) = <<>> => Range(Tail(steps)) = {}
  BY <1>1, Advance
<1> QED
  BY <1>2, <1>3 DEF Left

\* A step of the one command is none of the other.
LEMMA BuildOrPublish ==
  ASSUME ImageInv, ~Idle
  PROVE  /\ Head(steps)[1] \in {"wheel", "image"} =>
              steps \in Seq(BuildTasks) /\ Tail(steps) \in Seq(BuildTasks)
              /\ (Tail(steps) # <<>> => Tail(steps) \notin Seq(PublishTasks))
         /\ Head(steps)[1] \in {"inspect", "push"} =>
              steps \in Seq(PublishTasks) /\ Tail(steps) \in Seq(PublishTasks)
              /\ (Tail(steps) # <<>> => Tail(steps) \notin Seq(BuildTasks))
<1>1. steps \in Seq(BuildTasks) \/ steps \in Seq(PublishTasks)
  BY DEF ImageInv, TasksInv
<1>2. \A x \in BuildTasks : x[1] \in {"wheel", "image"}
  BY DEF BuildTasks
<1>3. \A x \in PublishTasks : x[1] \in {"inspect", "push"}
  BY DEF PublishTasks
<1>4. /\ steps \in Seq(BuildTasks) => Head(steps) \in BuildTasks /\ Tail(steps) \in Seq(BuildTasks)
      /\ steps \in Seq(PublishTasks) => Head(steps) \in PublishTasks /\ Tail(steps) \in Seq(PublishTasks)
  BY StepTaken
<1>5. \A T : \A s \in Seq(T) : s # <<>> => Head(s) \in T
  OBVIOUS
<1>6. \A s \in Seq(BuildTasks) : s # <<>> => s \notin Seq(PublishTasks)
  BY <1>2, <1>3, <1>5
<1> QED
  BY <1>1, <1>2, <1>3, <1>4, <1>6

\* A wheel goes into its build context.
LEMMA WheelBuilt == ASSUME ImageInv, BuildWheel PROVE ImageInv'
<1> DEFINE k == Head(steps)[2]
           h == Head(steps)
<1>1. /\ ~Idle /\ h[1] = "wheel" /\ steps' = Tail(steps)
      /\ built' = IF Tail(steps) = <<>> THEN "ok" ELSE built
      /\ dist' = [dist EXCEPT ![k] = CopyWheel(@, source[k])]
      /\ wheel' = [wheel EXCEPT ![k] = source[k].edit]
      /\ UNCHANGED <<local, registry, hosts, pushed, confirmed>>
  BY DEF BuildWheel, At, Proceed
<1>2. /\ steps \in Seq(BuildTasks) /\ Tail(steps) \in Seq(BuildTasks)
      /\ (Tail(steps) # <<>> => Tail(steps) \notin Seq(PublishTasks))
  BY <1>1, BuildOrPublish
<1>3. h \in BuildTasks /\ Ordered(Tail(steps)) /\ Left = {h} \cup Left'
      /\ (Tail(steps) = <<>> => Left' = {})
  BY <1>1, <1>2, StepTaken DEF Left
<1>4. k \in Kinds /\ h = <<"wheel", k>> /\ Early(h)
  BY <1>1, <1>3 DEF BuildTasks, Early
<1> HIDE DEF h, k
<1>5. /\ built = "running" /\ pushed = {}
      /\ \A j \in Kinds : <<"wheel", j>> \in Left \/ \E w \in dist[j] : w.edit = wheel[j]
      /\ \A s \in Services : <<"image", s>> \in Left
  BY <1>1, <1>2, <1>3, <1>4 DEF ImageInv, BuildInv
<1>6. \A s \in Services : <<"image", s>> \in Left'
  <2> TAKE s \in Services
  <2>1. <<"image", s>> # h
    BY <1>4
  <2> QED
    BY <1>3, <1>5, <2>1
<1>7. Tail(steps) # <<>> /\ built' = "running"
  <2>1. "mistral-api" \in Services
    BY DEF Services, MistralServices
  <2> QED
    BY <1>1, <1>3, <1>5, <1>6, <2>1
<1>8. DOMAIN dist = Kinds /\ DOMAIN wheel = Kinds /\ \A j \in Kinds : IsFiniteSet(dist[j])
  BY DEF ImageInv, Shape
<1>9. \A j \in Kinds : /\ dist'[j] = IF j = k THEN CopyWheel(dist[k], source[k]) ELSE dist[j]
                       /\ wheel'[j] = IF j = k THEN source[k].edit ELSE wheel[j]
  BY <1>1, <1>4, <1>8
<1>10. Shape'
  <2>1. IsFiniteSet(CopyWheel(dist[k], source[k]))
    BY <1>4, <1>8, FS_Subset, FS_AddElement DEF CopyWheel
  <2>2. \A j \in Kinds : IsFiniteSet(dist'[j])
    BY <1>8, <1>9, <2>1
  <2> QED
    BY <1>1, <1>8, <2>2 DEF ImageInv, Shape
<1>11. TasksInv'
  BY <1>1, <1>2, <1>3 DEF TasksInv
<1>12. BuildInv'
  <2>1. \A j \in Kinds : <<"wheel", j>> \in Left' \/ \E w \in dist'[j] : w.edit = wheel'[j]
    <3> TAKE j \in Kinds
    <3>1. CASE j = k
      BY <1>9, <3>1 DEF CopyWheel
    <3>2. CASE j # k
      <4>1. <<"wheel", j>> # h
        BY <1>4, <3>2
      <4> QED
        BY <1>3, <1>5, <1>9, <3>2, <4>1
    <3> QED
      BY <3>1, <3>2
  <2> QED
    BY <1>1, <1>5, <1>6, <1>7, <2>1 DEF BuildInv
<1>13. PublishInv'
  BY <1>1, <1>2, <1>7 DEF PublishInv
<1>14. BuiltInv' /\ PushedInv'
  BY <1>1, <1>5, <1>7 DEF BuiltInv, PushedInv
<1> QED
  BY <1>10, <1>11, <1>12, <1>13, <1>14 DEF ImageInv
\* A derived image is built with the one wheel of its context.
LEMMA ImageBuilt == ASSUME ImageInv, BuildImage PROVE ImageInv'
<1> DEFINE h == Head(steps)
           s == Head(steps)[2]
           d == dist[KindOf(s)]
<1>1. /\ ~Idle /\ h[1] = "image" /\ steps' = Tail(steps) /\ Cardinality(d) = 1
      /\ built' = IF Tail(steps) = <<>> THEN "ok" ELSE built
      /\ local' = [local EXCEPT ![s] = (CHOOSE w \in d : TRUE).edit]
      /\ UNCHANGED <<dist, registry, hosts, wheel, pushed, confirmed>>
  BY DEF BuildImage, At, Proceed
<1>2. /\ steps \in Seq(BuildTasks) /\ Tail(steps) \in Seq(BuildTasks)
      /\ (Tail(steps) # <<>> => Tail(steps) \notin Seq(PublishTasks))
  BY <1>1, BuildOrPublish
<1>3. /\ h \in BuildTasks /\ Ordered(Tail(steps)) /\ Left = {h} \cup Left'
      /\ (Tail(steps) = <<>> => Left' = {})
      /\ Early(h) \/ \A x \in Left : ~Early(x)
  BY <1>1, <1>2, StepTaken DEF Left
<1>4. s \in Services /\ h = <<"image", s>> /\ ~Early(h)
  BY <1>1, <1>3 DEF BuildTasks, Early
<1> HIDE DEF h, s
<1>5. KindOf(s) \in Kinds
  BY <1>4, KindsOfServices
<1>6. /\ built = "running" /\ pushed = {}
      /\ \A j \in Kinds : <<"wheel", j>> \in Left \/ \E w \in dist[j] : w.edit = wheel[j]
      /\ \A t \in Services : <<"image", t>> \in Left \/ local[t] = wheel[KindOf(t)]
  BY <1>1, <1>2 DEF ImageInv, BuildInv
<1>7. (CHOOSE w \in d : TRUE).edit = wheel[KindOf(s)]
  <2>1. <<"wheel", KindOf(s)>> \notin Left
    BY <1>3, <1>4 DEF Early
  <2>2. PICK w \in d : w.edit = wheel[KindOf(s)]
    BY <1>5, <1>6, <2>1
  <2>3. IsFiniteSet(d)
    BY <1>5 DEF ImageInv, Shape
  <2>4. \E x : d = {x}
    BY <1>1, <2>3, FS_Singleton
  <2>5. (CHOOSE v \in d : TRUE) = w
    BY <2>2, <2>4
  <2> QED
    BY <2>2, <2>5
<1>8. \A t \in Services : local'[t] = IF t = s THEN wheel[KindOf(s)] ELSE local[t]
  <2>1. DOMAIN local = Services
    BY DEF ImageInv, Shape
  <2> HIDE DEF d
  <2> QED
    BY <1>1, <1>7, <2>1
<1>9. \A t \in Services : <<"image", t>> \in Left' \/ local'[t] = wheel[KindOf(t)]
  <2> TAKE t \in Services
  <2>1. CASE t = s
    BY <1>8, <2>1
  <2>2. CASE t # s
    <3>1. <<"image", t>> # h
      BY <1>4, <2>2
    <3> QED
      BY <1>3, <1>6, <1>8, <2>2, <3>1
  <2> QED
    BY <2>1, <2>2
<1>10. Shape'
  BY <1>1 DEF ImageInv, Shape
<1>11. TasksInv'
  BY <1>1, <1>2, <1>3 DEF TasksInv
<1>12. BuildInv'
  <2> SUFFICES ASSUME ~Idle' PROVE BuildInv'
    BY DEF BuildInv
  <2>1. built' = "running" /\ pushed' = {}
    BY <1>1, <1>6 DEF Idle
  <2>2. \A j \in Kinds : <<"wheel", j>> \in Left' \/ \E w \in dist'[j] : w.edit = wheel'[j]
    <3> TAKE j \in Kinds
    <3>1. <<"wheel", j>> # h
      BY <1>4
    <3> QED
      BY <1>1, <1>3, <1>6, <3>1
  <2>3. \A x \in Left' : ~Early(x)
    BY <1>3, <1>4
  <2> QED
    BY <1>1, <1>9, <2>1, <2>2, <2>3 DEF BuildInv
<1>13. PublishInv'
  BY <1>1, <1>2 DEF PublishInv, Idle
<1>14. BuiltInv' /\ PushedInv'
  <2>1. PushedInv'
    BY <1>1, <1>6 DEF PushedInv
  <2>2. ASSUME built' = "ok" PROVE \A t \in Services : local'[t] = wheel[KindOf(t)]
    <3>1. Left' = {}
      BY <1>1, <1>3, <1>6, <2>2
    <3> QED
      BY <1>9, <3>1
  <2> QED
    BY <1>1, <1>6, <2>1, <2>2 DEF BuiltInv
<1> QED
  BY <1>10, <1>11, <1>12, <1>13, <1>14 DEF ImageInv

\* An image is found before anything is pushed.
LEMMA ImageInspected == ASSUME ImageInv, InspectImage PROVE ImageInv'
<1> DEFINE h == Head(steps)
           s == Head(steps)[2]
<1>1. /\ ~Idle /\ h[1] = "inspect" /\ steps' = Tail(steps) /\ local[s] # NoImage
      /\ built' = built
      /\ UNCHANGED <<dist, local, registry, hosts, wheel, pushed, confirmed>>
  BY DEF InspectImage, At, Proceed
<1>2. /\ steps \in Seq(PublishTasks) /\ Tail(steps) \in Seq(PublishTasks)
      /\ (Tail(steps) # <<>> => Tail(steps) \notin Seq(BuildTasks))
  BY <1>1, BuildOrPublish
<1>3. h \in PublishTasks /\ Ordered(Tail(steps)) /\ Left = {h} \cup Left'
  BY <1>1, <1>2, StepTaken DEF Left
<1>4. s \in Services /\ h = <<"inspect", s>> /\ Early(h)
  BY <1>1, <1>3 DEF PublishTasks, Early
<1> HIDE DEF h, s
<1>5. /\ \A t \in Services : hosts[t] = confirmed
      /\ \A t \in Services : <<"inspect", t>> \in Left \/ local[t] # NoImage
      /\ pushed = {}
  BY <1>1, <1>2, <1>3, <1>4 DEF ImageInv, PublishInv
<1>6. \A t \in Services : <<"inspect", t>> \in Left' \/ local[t] # NoImage
  <2> TAKE t \in Services
  <2>1. CASE t = s
    BY <1>1, <2>1
  <2>2. CASE t # s
    <3>1. <<"inspect", t>> # h
      BY <1>4, <2>2
    <3> QED
      BY <1>3, <1>5, <3>1
  <2> QED
    BY <2>1, <2>2
<1>7. Shape' /\ TasksInv'
  BY <1>1, <1>2, <1>3 DEF ImageInv, Shape, TasksInv
<1>8. BuildInv'
  BY <1>1, <1>2 DEF BuildInv, Idle
<1>9. PublishInv'
  BY <1>1, <1>5, <1>6 DEF PublishInv
<1>10. BuiltInv' /\ PushedInv'
  BY <1>1 DEF ImageInv, BuiltInv, PushedInv
<1> QED
  BY <1>7, <1>8, <1>9, <1>10 DEF ImageInv

\* An image is pushed: all of them have been found.
LEMMA ImagePushed == ASSUME ImageInv, PushImage PROVE ImageInv'
<1> DEFINE h == Head(steps)
           s == Head(steps)[2]
<1>1. /\ ~Idle /\ h[1] = "push" /\ steps' = Tail(steps) /\ local[s] # NoImage
      /\ built' = built
      /\ registry' = [registry EXCEPT ![s] = local[s]]
      /\ pushed' = pushed \cup {s}
      /\ UNCHANGED <<dist, local, hosts, wheel, confirmed>>
  BY DEF PushImage, At, Proceed
<1>2. /\ steps \in Seq(PublishTasks) /\ Tail(steps) \in Seq(PublishTasks)
      /\ (Tail(steps) # <<>> => Tail(steps) \notin Seq(BuildTasks))
  BY <1>1, BuildOrPublish
<1>3. /\ h \in PublishTasks /\ Ordered(Tail(steps)) /\ Left = {h} \cup Left'
      /\ Early(h) \/ \A x \in Left : ~Early(x)
  BY <1>1, <1>2, StepTaken DEF Left
<1>4. s \in Services /\ h = <<"push", s>> /\ ~Early(h)
  BY <1>1, <1>3 DEF PublishTasks, Early
<1> HIDE DEF h, s
<1>5. /\ \A t \in Services : hosts[t] = confirmed
      /\ \A t \in Services : <<"inspect", t>> \in Left \/ local[t] # NoImage
  BY <1>1, <1>2 DEF ImageInv, PublishInv
<1>6. /\ \A x \in Left' : ~Early(x)
      /\ \A t \in Services : local[t] # NoImage
  <2>1. \A x \in Left : ~Early(x)
    BY <1>3, <1>4
  <2>2. \A t \in Services : Early(<<"inspect", t>>)
    BY DEF Early
  <2> QED
    BY <1>3, <1>5, <2>1, <2>2
<1>7. Shape' /\ TasksInv'
  BY <1>1, <1>2, <1>3 DEF ImageInv, Shape, TasksInv
<1>8. BuildInv'
  BY <1>1, <1>2 DEF BuildInv, Idle
<1>9. PublishInv'
  BY <1>1, <1>5, <1>6 DEF PublishInv
<1>10. PushedInv'
  BY <1>1, <1>5 DEF PushedInv
<1>11. BuiltInv'
  <2> SUFFICES ASSUME built = "ok", NEW t \in Services
               PROVE  /\ local[t] = NoImage \/ local[t] = wheel[KindOf(t)]
                      /\ t \in pushed' => registry'[t] = wheel[KindOf(t)]
    BY <1>1 DEF BuiltInv
  <2>1. /\ local[t] = NoImage \/ local[t] = wheel[KindOf(t)]
        /\ t \in pushed => registry[t] = wheel[KindOf(t)]
    BY DEF ImageInv, BuiltInv
  <2>2. registry'[t] = IF t = s THEN local[s] ELSE registry[t]
    BY <1>1 DEF ImageInv, Shape
  <2> QED
    BY <1>1, <2>1, <2>2
<1> QED
  BY <1>7, <1>8, <1>9, <1>10, <1>11 DEF ImageInv

\* A command that fails leaves nothing to do.
LEMMA CommandEnds == ASSUME ImageInv, CommandFails PROVE ImageInv'
<1>1. /\ ~Idle /\ steps' = <<>> /\ built' \in {"failed", built}
      /\ UNCHANGED <<dist, local, registry, hosts, wheel, pushed, confirmed>>
  BY DEF CommandFails
<1>2. Shape' /\ TasksInv'
  BY <1>1, NothingLeft DEF ImageInv, Shape, TasksInv
<1>3. BuildInv' /\ PublishInv'
  BY <1>1 DEF BuildInv, PublishInv, Idle
<1>4. BuiltInv' /\ PushedInv'
  BY <1>1 DEF ImageInv, BuiltInv, PushedInv
<1> QED
  BY <1>2, <1>3, <1>4 DEF ImageInv

\* What developers and operators do between the commands, and during them.
LEMMA OthersKeep ==
  ASSUME ImageInv,
         \/ \E k \in Kinds : CleanContext(k) \/ \E bump \in BOOLEAN : EditSource(k, bump)
         \/ \E s \in Services : Prune(s)
         \/ UNCHANGED imageVars
  PROVE  ImageInv'
<1>1. ASSUME NEW k \in Kinds, CleanContext(k) PROVE ImageInv'
  <2>1. /\ Idle /\ dist' = [dist EXCEPT ![k] = {}]
        /\ UNCHANGED <<local, registry, hosts, wheel, built, pushed, confirmed, steps>>
    BY <1>1 DEF CleanContext
  <2>2. Shape'
    BY <2>1, FS_EmptySet DEF ImageInv, Shape
  <2> QED
    BY <2>1, <2>2 DEF ImageInv, TasksInv, BuildInv, PublishInv, BuiltInv, PushedInv, Idle
<1>2. ASSUME NEW s \in Services, Prune(s) PROVE ImageInv'
  <2>1. /\ Idle /\ local' = [local EXCEPT ![s] = NoImage]
        /\ UNCHANGED <<dist, registry, hosts, wheel, built, pushed, confirmed, steps>>
    BY <1>2 DEF Prune
  <2>2. Shape'
    BY <2>1 DEF ImageInv, Shape
  <2>3. BuiltInv'
    BY <2>1 DEF ImageInv, BuiltInv, Shape
  <2> QED
    BY <2>1, <2>2, <2>3 DEF ImageInv, TasksInv, BuildInv, PublishInv, PushedInv, Idle
<1>3. ASSUME UNCHANGED <<dist, local, registry, hosts, wheel, built, pushed, confirmed, steps>>
      PROVE  ImageInv'
  BY <1>3 DEF ImageInv, Shape, TasksInv, BuildInv, PublishInv, BuiltInv, PushedInv, Idle, Left
<1> QED
  BY <1>1, <1>2, <1>3 DEF EditSource, imageVars

\* What tools/powerops publishes after a build that returned is what that build
\* made, whatever was edited meanwhile, and no publish pushes anything unless every
\* image exists and is of the confirmed registry.
THEOREM PublishedImagesAreBuilt == Spec => []PublishedIsBuilt
<1>1. Init => ImageInv
  BY ImageInitial DEF Init
<1>2. ImageInv /\ [Next]_vars => ImageInv'
  <2> SUFFICES ASSUME ImageInv, [Next]_vars PROVE ImageInv'
    OBVIOUS
  <2>1. ASSUME ImageNext PROVE ImageInv'
    BY <2>1, CommandStarts, WheelBuilt, ImageBuilt, ImageInspected, ImagePushed, CommandEnds,
       OthersKeep DEF ImageNext
  <2>2. ImageNext \/ UNCHANGED imageVars
    BY DEF Next, vars, CompareContainer, MergeIni, MergeYaml, ScheduleRotations, ValidateInputs,
       Compute, KeepPasswords, PrepareImages
  <2> QED
    BY <2>1, <2>2, OthersKeep
<1>3. ImageInv => PublishedIsBuilt
  <2> SUFFICES ASSUME ImageInv PROVE PublishedIsBuilt
    OBVIOUS
  <2>1. ASSUME pushed = Services, built = "ok" PROVE \A s \in Services : registry[s] = wheel[KindOf(s)]
    BY <2>1 DEF ImageInv, BuiltInv
  <2>2. pushed # {} => \A s \in Services : hosts[s] = confirmed
    BY DEF ImageInv, PushedInv
  <2>3. ASSUME pushed # {}, ~Idle PROVE \A s \in Services : local[s] # NoImage
    <3>1. steps \in Seq(PublishTasks)
      BY <2>3 DEF ImageInv, TasksInv, BuildInv
    <3>2. \A s \in Services : Early(<<"inspect", s>>)
      BY DEF Early
    <3> QED
      BY <2>3, <3>1, <3>2 DEF ImageInv, PublishInv
  <2> QED
    BY <2>1, <2>2, <2>3 DEF PublishedIsBuilt
<1> QED
  BY <1>1, <1>2, <1>3, PTL DEF Spec
-----------------------------------------------------------------------------
(***************************************************************************)
(* The passwords: where the value of a key that is in use is kept.         *)
(***************************************************************************)

Redis == "redis_master_password"
Valkey == "valkey_master_password"

Has(f, k) == k \in DOMAIN f /\ IsSet(f[k])

\* A passwords file: only an ssh key has halves that may be empty.
IsFile(f, keys) ==
    DOMAIN f = keys /\ \A k \in keys : f[k] \in Nat /\ (k \notin ssh_keys => f[k] # BlankPair)

\* f has every value that was deployed with or is in the vault, but for those lost.
Sound(f, v, d, l) ==
    \A k \in AllKeys \ l : /\ IsSet(d[k]) => Has(f, k) /\ f[k] = d[k]
                           /\ IsSet(v[k]) => Has(f, k) /\ f[k] = v[k]

\* After an upgrade, f has a password of Valkey if it has one of Redis, and the same
\* one while Valkey is not deployed with it.
Follows(f, d, l) ==
    Redis \notin l /\ Valkey \notin l =>
      /\ Has(f, Redis) => Has(f, Valkey)
      /\ IsSet(d[Redis]) /\ ~IsSet(d[Valkey]) => Has(f, Valkey) /\ f[Valkey] = f[Redis]

Carries(f) == /\ Sound(f, vault, deployed, lost)
              /\ first = 1 /\ release = 2 => Follows(f, deployed, lost)

BasicInv ==
    /\ first \in {1, 2} /\ release \in {1, 2} /\ (first = 2 => release = 2)
    /\ stage \in {"run", "upgrade", "restore"} /\ (stage = "upgrade" => first = 1 /\ release = 2)
    /\ generated \in Nat /\ generated >= BlankPair
    /\ DOMAIN files = {"live", "old", "new"}
    /\ IsFile(vault, AllKeys)
    /\ \A k \in AllKeys \ KeysOf(release) : ~IsSet(vault[k]) /\ ~IsSet(deployed[k])

\* In operation the live file has the values, or what a tool is about to write, or the
\* vault once a tool has died.
RunInv ==
    stage = "run" =>
      /\ Ready /\ files["live"] # NoFile => IsFile(files["live"], KeysOf(release)) /\ Carries(files["live"])
      /\ Ready /\ files["live"] = NoFile => Carries(vault)
      /\ ~Ready => /\ files["live"] = NoFile /\ rewrite[1].file = "live"
                   /\ IsFile(rewrite[1].content, KeysOf(release))
                   /\ Carries(rewrite[1].content) /\ Carries(rewrite[1].before)

\* A new live file waits to be read from the vault.
RestoreInv ==
    stage = "restore" =>
      /\ Carries(vault)
      /\ files["live"] # NoFile => IsFile(files["live"], KeysOf(release))
      /\ ~Ready => /\ rewrite[1].file = "live"
                   /\ rewrite[1].content = [k \in KeysOf(release) |-> vault[k]]

\* During an upgrade the old file has the values.
UpgradeInv ==
    stage = "upgrade" =>
      /\ IsFile(files["old"], KeysOf(1)) /\ Sound(files["old"], vault, deployed, lost)
      /\ files["new"] # NoFile => IsFile(files["new"], KeysOf(2))
      /\ ~Ready => \/ rewrite[1].file = "new" /\ IsFile(rewrite[1].content, KeysOf(2))
                   \/ /\ rewrite[1].file = "live" /\ IsFile(rewrite[1].content, KeysOf(2))
                      /\ Carries(rewrite[1].content)

PasswordInv == BasicInv /\ RunInv /\ RestoreInv /\ UpgradeInv

\* The keys of the releases.
LEMMA KeysKnown ==
  /\ AllKeys = KeysOf(2) /\ KeysOf(1) = AllKeys \ {Valkey} /\ Valkey \in AllKeys
  /\ Redis \in KeysOf(1) /\ Redis # Valkey
  /\ Redis \notin ssh_keys /\ Valkey \notin ssh_keys /\ Redis \notin blank_keys /\ Valkey \notin blank_keys
  /\ \A n \in {1, 2} : KeysOf(n) \subseteq AllKeys /\ KeysOf(n) # {}
BY DEF AllKeys, KeysOf, Valkey, Redis, ssh_keys, blank_keys

\* The sample of a release is a passwords file without values.
LEMMA SampleIsFile ==
  ASSUME NEW n \in {1, 2}
  PROVE  IsFile(Sample(n), KeysOf(n)) /\ Sample(n) # NoFile /\ \A k : ~Has(Sample(n), k)
<1>1. DOMAIN Sample(n) = KeysOf(n)
  BY DEF Sample
<1>2. \A k \in KeysOf(n) : Sample(n)[k] = IF k \in ssh_keys THEN BlankPair ELSE Unset
  BY DEF Sample
<1>3. IsFile(Sample(n), KeysOf(n))
  BY <1>1, <1>2 DEF IsFile, BlankPair, Unset
<1>4. ~IsSet(BlankPair) /\ ~IsSet(Unset)
  BY DEF IsSet, BlankPair, Unset
<1>5. \A k : ~Has(Sample(n), k)
  BY <1>1, <1>2, <1>4 DEF Has
<1>6. Sample(n) # NoFile
  BY <1>1, KeysKnown DEF NoFile
<1> QED
  BY <1>3, <1>5, <1>6

\* Passwords files are no missing files.
LEMMA FilesExist ==
  ASSUME NEW f, NEW n \in {1, 2}, IsFile(f, KeysOf(n))
  PROVE  f # NoFile
<1>1. DOMAIN f # {}
  BY KeysKnown DEF IsFile
<1> QED
  BY <1>1 DEF NoFile

\* What has been lost can only be more to excuse.
LEMMA LostExcuses ==
  ASSUME NEW f, NEW v, NEW d, NEW l, NEW m, l \subseteq m
  PROVE  /\ Sound(f, v, d, l) => Sound(f, v, d, m)
         /\ Follows(f, d, l) => Follows(f, d, m)
BY DEF Sound, Follows

\* The vault takes the place of a file whose other values count as lost.
LEMMA VaultReplaces ==
  ASSUME NEW f, NEW l, NEW keys, Sound(f, vault, deployed, l),
         \A k \in AllKeys : IsSet(vault[k]) => k \in keys,
         NEW c, DOMAIN c = keys, \A k \in keys : c[k] = vault[k],
         Redis \in AllKeys, Valkey \in AllKeys, keys \subseteq AllKeys
  PROVE  /\ Sound(c, vault, deployed, l \cup Unsaved(f))
         /\ Follows(f, deployed, l) => Follows(c, deployed, l \cup Unsaved(f))
<1>1. \A k \in AllKeys \ (l \cup Unsaved(f)) :
        Has(f, k) => Has(c, k) /\ c[k] = f[k] /\ c[k] = vault[k]
  BY DEF Unsaved, Sound, Has
<1>2. \A k \in AllKeys \ l : Has(c, k) => Has(f, k)
  BY DEF Sound, Has
<1>3. Sound(c, vault, deployed, l \cup Unsaved(f))
  BY <1>1 DEF Sound
<1>4. ASSUME Follows(f, deployed, l) PROVE Follows(c, deployed, l \cup Unsaved(f))
  <2> SUFFICES ASSUME Redis \notin l \cup Unsaved(f), Valkey \notin l \cup Unsaved(f)
               PROVE  /\ Has(c, Redis) => Has(c, Valkey)
                      /\ IsSet(deployed[Redis]) /\ ~IsSet(deployed[Valkey]) =>
                            Has(c, Valkey) /\ c[Valkey] = c[Redis]
    BY DEF Follows
  <2>1. /\ Has(f, Redis) => Has(f, Valkey)
        /\ IsSet(deployed[Redis]) /\ ~IsSet(deployed[Valkey]) =>
              Has(f, Valkey) /\ f[Valkey] = f[Redis]
    BY <1>4 DEF Follows
  <2>2. IsSet(deployed[Redis]) => Has(f, Redis)
    BY DEF Sound
  <2> QED
    BY <1>1, <1>2, <2>1, <2>2
<1> QED
  BY <1>3, <1>4

\* The values are where they should be when nothing has been deployed.
LEMMA PasswordInitial == PasswordInit => PasswordInv
<1> SUFFICES ASSUME PasswordInit PROVE PasswordInv
  OBVIOUS
<1>1. /\ first \in {1, 2} /\ release = first /\ rewrite = <<>> /\ stage = "run" /\ generated = BlankPair
      /\ files["live"] = Sample(first) /\ DOMAIN files = {"live", "old", "new"}
      /\ vault = [k \in AllKeys |-> Unset] /\ deployed = [k \in AllKeys |-> Unset] /\ lost = {}
  BY DEF PasswordInit
<1>2. IsFile(vault, AllKeys)
  BY <1>1 DEF IsFile, Unset, BlankPair
<1>3. \A k \in AllKeys : ~IsSet(vault[k]) /\ ~IsSet(deployed[k])
  BY <1>1 DEF IsSet, Unset, BlankPair
<1>4. BasicInv
  BY <1>1, <1>2, <1>3 DEF BasicInv, BlankPair
<1>5. Carries(files["live"])
  BY <1>1, <1>3, KeysKnown, SampleIsFile DEF Carries, Sound, Follows
<1>6. RunInv
  BY <1>1, <1>5, SampleIsFile DEF RunInv, Ready
<1> QED
  BY <1>1, <1>4, <1>6 DEF PasswordInv, RestoreInv, UpgradeInv

\* A value that is set is not generated again.
LEMMA GeneratedFile ==
  ASSUME NEW f, NEW n \in {1, 2}, IsFile(f, KeysOf(n)), NEW g \in Nat, g > BlankPair,
         NEW c, c = [k \in DOMAIN f |-> Generate(k, f[k], g)]
  PROVE  /\ IsFile(c, KeysOf(n))
         /\ \A k : Has(f, k) => Has(c, k) /\ c[k] = f[k]
         /\ Valkey \in KeysOf(n) => Has(c, Valkey)
<1>1. DOMAIN c = KeysOf(n) /\ \A k \in KeysOf(n) : c[k] = Generate(k, f[k], g)
  BY DEF IsFile
<1>2. \A k \in KeysOf(n) : f[k] \in Nat /\ (k \notin ssh_keys => f[k] # BlankPair)
  BY DEF IsFile
<1>3. ASSUME NEW k \in KeysOf(n)
      PROVE  /\ c[k] \in Nat /\ (k \notin ssh_keys => c[k] # BlankPair)
             /\ IsSet(f[k]) => c[k] = f[k]
             /\ k \notin ssh_keys /\ k \notin blank_keys => IsSet(c[k])
  <2>1. f[k] \in Nat /\ (k \notin ssh_keys => f[k] # BlankPair) /\ c[k] = Generate(k, f[k], g)
    BY <1>1, <1>2
  <2> QED
    BY <2>1 DEF Generate, IsSet, Unset, BlankPair
<1>4. IsFile(c, KeysOf(n))
  BY <1>1, <1>3 DEF IsFile
<1>5. \A k : Has(f, k) => Has(c, k) /\ c[k] = f[k]
  BY <1>1, <1>3 DEF Has, IsFile
<1>6. Valkey \in KeysOf(n) => Has(c, Valkey)
  BY <1>1, <1>3, KeysKnown DEF Has
<1> QED
  BY <1>4, <1>5, <1>6

\* A file with the values of another one, and a password of Valkey, carries them too.
LEMMA ValuesKept ==
  ASSUME NEW f, NEW c, \A k : Has(f, k) => Has(c, k) /\ c[k] = f[k],
         first = 1 /\ release = 2 => Has(c, Valkey),
         PasswordInv, Carries(f)
  PROVE  Carries(c)
<1>1. Sound(c, vault, deployed, lost)
  BY DEF Carries, Sound
<1>2. ASSUME first = 1, release = 2 PROVE Follows(c, deployed, lost)
  <2> SUFFICES ASSUME Redis \notin lost, Valkey \notin lost
               PROVE  /\ Has(c, Valkey)
                      /\ IsSet(deployed[Redis]) /\ ~IsSet(deployed[Valkey]) =>
                            Has(c, Valkey) /\ c[Valkey] = c[Redis]
    BY DEF Follows
  <2>1. IsSet(deployed[Redis]) /\ ~IsSet(deployed[Valkey]) => Has(f, Valkey) /\ f[Valkey] = f[Redis]
    BY <1>2 DEF Carries, Follows
  <2>2. IsSet(deployed[Redis]) => Has(f, Redis)
    BY KeysKnown DEF Carries, Sound
  <2> QED
    BY <1>2, <2>1, <2>2
<1> QED
  BY <1>1, <1>2 DEF Carries

\* kolla-genpwd leaves the values where they were.
LEMMA PasswordsGenerated ==
  ASSUME PasswordInv, NEW f \in {"live", "new"}, genpwd(f)
  PROVE  PasswordInv'
<1> DEFINE c == [k \in DOMAIN files[f] |-> Generate(k, files[f][k], generated')]
<1>1. /\ Ready /\ files[f] # NoFile /\ stage # "restore" /\ f = (IF stage = "upgrade" THEN "new" ELSE "live")
      /\ generated' = generated + 1
      /\ rewrite' = <<[file |-> f, content |-> c, before |-> files[f]]>>
      /\ files' = [files EXCEPT ![f] = NoFile]
      /\ UNCHANGED <<vault, deployed, stage, release, first, lost>>
  BY DEF genpwd, RemoveFile
<1>2. /\ rewrite'[1].file = f /\ rewrite'[1].content = c /\ rewrite'[1].before = files[f]
      /\ rewrite' # <<>>
  BY <1>1
<1> HIDE DEF c
<1>3. BasicInv /\ RunInv /\ UpgradeInv
  BY DEF PasswordInv
<1>4. generated' \in Nat /\ generated' > BlankPair
  BY <1>1, <1>3 DEF BasicInv, BlankPair
<1>5. BasicInv'
  <2>1. DOMAIN files' = {"live", "old", "new"} /\ generated' >= BlankPair
    BY <1>1, <1>3, <1>4 DEF BasicInv, BlankPair
  <2> QED
    BY <1>1, <1>3, <1>4, <2>1 DEF BasicInv, IsFile
<1>6. ASSUME stage = "run" PROVE RunInv'
  <2>1. f = "live" /\ IsFile(files["live"], KeysOf(release)) /\ Carries(files["live"]) /\ release \in {1, 2}
    BY <1>1, <1>3, <1>6 DEF RunInv, BasicInv
  <2>2. /\ IsFile(c, KeysOf(release)) /\ \A k : Has(files["live"], k) => Has(c, k) /\ c[k] = files["live"][k]
        /\ Valkey \in KeysOf(release) => Has(c, Valkey)
    BY <1>4, <2>1, GeneratedFile DEF c
  <2>3. Carries(c)
    BY <2>1, <2>2, KeysKnown, ValuesKept
  <2>4. files'["live"] = NoFile
    BY <1>1, <1>3, <2>1 DEF BasicInv
  <2> QED
    BY <1>1, <1>2, <2>1, <2>2, <2>3, <2>4 DEF RunInv, Ready, Carries
<1>7. ASSUME stage = "upgrade" PROVE UpgradeInv'
  <2>1. f = "new" /\ IsFile(files["new"], KeysOf(2)) /\ files'["old"] = files["old"] /\ files'["new"] = NoFile
    BY <1>1, <1>3, <1>7 DEF UpgradeInv, BasicInv
  <2>2. IsFile(c, KeysOf(2))
    BY <1>4, <2>1, GeneratedFile DEF c
  <2> QED
    BY <1>1, <1>2, <1>3, <1>7, <2>1, <2>2 DEF UpgradeInv
<1> QED
  BY <1>1, <1>3, <1>5, <1>6, <1>7 DEF PasswordInv, RunInv, RestoreInv, UpgradeInv, BasicInv
\* The merged file has the old values, and Redis's password under the new key.
LEMMA MergedFile ==
  ASSUME NEW old, NEW new, NEW clean, IsFile(old, KeysOf(1)), IsFile(new, KeysOf(2)),
         NEW c, c = Merged(old, new, clean)
  PROVE  /\ IsFile(c, KeysOf(2))
         /\ \A k \in KeysOf(1) : c[k] = old[k]
         /\ IsSet(old[Redis]) => c[Valkey] = old[Redis]
<1> DEFINE m == Migrated(old, new)
<1>1. DOMAIN old = KeysOf(1) /\ DOMAIN new = KeysOf(2) /\ KeysOf(1) \subseteq KeysOf(2)
  BY KeysKnown DEF IsFile
<1>2. /\ DOMAIN m = KeysOf(2)
      /\ m[Valkey] = IF IsSet(old[Redis]) THEN old[Redis] ELSE new[Valkey]
  BY <1>1, KeysKnown DEF Migrated, Redis, Valkey
<1> HIDE DEF m
<1>3. c = [k \in KeysOf(2) |-> IF k \in KeysOf(1) THEN old[k] ELSE m[k]]
  <2>1. c = [k \in DOMAIN m \cup (IF clean THEN {} ELSE DOMAIN old) |->
               IF k \in DOMAIN old THEN old[k] ELSE m[k]]
    BY DEF Merged, m
  <2>2. DOMAIN m \cup (IF clean THEN {} ELSE DOMAIN old) = KeysOf(2)
    BY <1>1, <1>2
  <2> QED
    BY <1>1, <2>1, <2>2
<1>4. /\ DOMAIN c = KeysOf(2) /\ \A k \in KeysOf(1) : c[k] = old[k]
      /\ c[Valkey] = m[Valkey]
  BY <1>1, <1>3, KeysKnown
<1>5. \A k \in KeysOf(2) : k \in KeysOf(1) \/ k = Valkey
  BY KeysKnown
<1>6. \A k \in KeysOf(1) : c[k] \in Nat /\ (k \notin ssh_keys => c[k] # BlankPair)
  BY <1>4 DEF IsFile
<1>7. c[Valkey] \in Nat /\ c[Valkey] # BlankPair
  <2>1. old[Redis] \in Nat /\ old[Redis] # BlankPair /\ new[Valkey] \in Nat /\ new[Valkey] # BlankPair
    BY KeysKnown DEF IsFile
  <2> QED
    BY <1>2, <1>4, <2>1
<1>8. IsFile(c, KeysOf(2))
  BY <1>4, <1>5, <1>6, <1>7 DEF IsFile
<1> QED
  BY <1>2, <1>4, <1>8

\* kolla-mergepwd carries the values over to the new live file.
LEMMA PasswordsMerged ==
  ASSUME PasswordInv, NEW clean, mergepwd(clean)
  PROVE  PasswordInv'
<1> DEFINE c == Merged(files["old"], files["new"], clean)
<1>1. /\ Ready /\ files["new"] # NoFile /\ stage = "upgrade"
      /\ rewrite' = <<[file |-> "live", content |-> c, before |-> files["live"]]>>
      /\ files' = [files EXCEPT !["live"] = NoFile]
      /\ UNCHANGED <<vault, deployed, generated, stage, release, first, lost>>
  BY DEF mergepwd, RemoveFile
<1>2. /\ rewrite'[1].file = "live" /\ rewrite'[1].content = c /\ rewrite' # <<>>
  BY <1>1
<1>3. /\ IsFile(files["old"], KeysOf(1)) /\ IsFile(files["new"], KeysOf(2))
      /\ Sound(files["old"], vault, deployed, lost)
      /\ files'["old"] = files["old"] /\ files'["new"] = files["new"]
  BY <1>1 DEF PasswordInv, UpgradeInv, BasicInv
<1>4. /\ IsFile(c, KeysOf(2)) /\ \A k \in KeysOf(1) : c[k] = files["old"][k]
      /\ IsSet(files["old"][Redis]) => c[Valkey] = files["old"][Redis]
  BY <1>3, MergedFile
<1> HIDE DEF c
<1>5. \A k : Has(files["old"], k) => Has(c, k) /\ c[k] = files["old"][k]
  BY <1>3, <1>4, KeysKnown DEF Has, IsFile
<1>6. Sound(c, vault, deployed, lost)
  BY <1>3, <1>5 DEF Sound
<1>7. Follows(c, deployed, lost)
  <2> SUFFICES ASSUME Redis \notin lost, Valkey \notin lost
               PROVE  /\ Has(c, Redis) => Has(c, Valkey)
                      /\ IsSet(deployed[Redis]) /\ ~IsSet(deployed[Valkey]) =>
                            Has(c, Valkey) /\ c[Valkey] = c[Redis]
    BY DEF Follows
  <2>1. c[Redis] = files["old"][Redis] /\ DOMAIN c = KeysOf(2) /\ Redis \in AllKeys /\ Valkey \in KeysOf(2)
    BY <1>4, KeysKnown DEF IsFile
  <2>2. IsSet(deployed[Redis]) => IsSet(files["old"][Redis])
    BY <1>3, <2>1 DEF Sound, Has
  <2> QED
    BY <1>4, <2>1, <2>2 DEF Has
<1>8. BasicInv'
  <2>1. DOMAIN files' = {"live", "old", "new"} /\ BasicInv
    BY <1>1 DEF BasicInv, PasswordInv
  <2> QED
    BY <1>1, <2>1 DEF BasicInv, IsFile
<1>9. UpgradeInv'
  BY <1>1, <1>2, <1>3, <1>4, <1>6, <1>7 DEF UpgradeInv, Carries
<1> QED
  BY <1>1, <1>8, <1>9 DEF PasswordInv, RunInv, RestoreInv

\* kolla-writepwd gives the vault values of the live file.
LEMMA PasswordsSaved ==
  ASSUME PasswordInv, NEW kept, writepwd(kept)
  PROVE  PasswordInv'
<1> DEFINE f == files["live"]
<1>1. /\ Ready /\ f # NoFile /\ stage = "run" /\ kept \subseteq DOMAIN f
      /\ vault' = [k \in AllKeys |-> IF k \in kept /\ f[k] # Unset THEN f[k] ELSE vault[k]]
      /\ UNCHANGED <<files, deployed, generated, rewrite, stage, release, first, lost>>
  BY DEF writepwd
<1>2. IsFile(f, KeysOf(release)) /\ Carries(f) /\ BasicInv /\ release \in {1, 2}
  BY <1>1 DEF PasswordInv, RunInv, BasicInv
<1> HIDE DEF f
<1>3. DOMAIN f = KeysOf(release) /\ KeysOf(release) \subseteq AllKeys
  BY <1>2, KeysKnown DEF IsFile
<1>4. IsFile(vault, AllKeys)
  BY <1>2 DEF BasicInv
<1>5. IsFile(vault', AllKeys)
  BY <1>1, <1>2, <1>3, <1>4 DEF IsFile
<1>6. \A k \in AllKeys : k \notin kept => vault'[k] = vault[k]
  BY <1>1
<1>7. \A k \in AllKeys : vault'[k] = vault[k] \/ (k \in KeysOf(release) /\ vault'[k] = f[k])
  BY <1>1, <1>3
<1>8. \A k \in AllKeys \ KeysOf(release) : ~IsSet(vault'[k]) /\ ~IsSet(deployed'[k])
  BY <1>1, <1>2, <1>7 DEF BasicInv
<1>9. BasicInv'
  BY <1>1, <1>2, <1>5, <1>8 DEF BasicInv
<1>10. Sound(f, vault', deployed, lost)
  BY <1>2, <1>3, <1>7 DEF Sound, Carries, Has
<1>11. RunInv'
  BY <1>1, <1>2, <1>10 DEF RunInv, Ready, Carries, f
<1> QED
  BY <1>1, <1>9, <1>11 DEF PasswordInv, RestoreInv, UpgradeInv
\* The part of the vault under the keys of the release has what the vault has.
LEMMA VaultFile ==
  ASSUME PasswordInv, Carries(vault), NEW c, c = [k \in KeysOf(release) |-> vault[k]]
  PROVE  IsFile(c, KeysOf(release)) /\ Carries(c)
<1>1. release \in {1, 2} /\ KeysOf(release) \subseteq AllKeys /\ Redis \in AllKeys /\ Valkey \in AllKeys
  BY KeysKnown DEF PasswordInv, BasicInv
<1>2. IsFile(vault, AllKeys) /\ \A k \in AllKeys : IsSet(vault[k]) => k \in KeysOf(release)
  BY DEF PasswordInv, BasicInv
<1>3. \A k \in AllKeys : Has(vault, k) => Has(c, k) /\ c[k] = vault[k]
  BY <1>1, <1>2 DEF Has
<1>4. \A k \in AllKeys : Has(c, k) => Has(vault, k)
  BY <1>1, <1>2 DEF Has, IsFile
<1>5. IsFile(c, KeysOf(release))
  BY <1>1, <1>2 DEF IsFile
<1>6. Sound(c, vault, deployed, lost)
  BY <1>3 DEF Carries, Sound
<1>7. ASSUME first = 1, release = 2 PROVE Follows(c, deployed, lost)
  <2> SUFFICES ASSUME Redis \notin lost, Valkey \notin lost
               PROVE  /\ Has(c, Redis) => Has(c, Valkey)
                      /\ IsSet(deployed[Redis]) /\ ~IsSet(deployed[Valkey]) =>
                            Has(c, Valkey) /\ c[Valkey] = c[Redis]
    BY DEF Follows
  <2>1. /\ Has(vault, Redis) => Has(vault, Valkey)
        /\ IsSet(deployed[Redis]) /\ ~IsSet(deployed[Valkey]) =>
              Has(vault, Valkey) /\ vault[Valkey] = vault[Redis]
        /\ IsSet(deployed[Redis]) => Has(vault, Redis)
    BY <1>1, <1>7 DEF Carries, Follows, Sound
  <2> QED
    BY <1>1, <1>3, <1>4, <2>1
<1> QED
  BY <1>5, <1>6, <1>7 DEF Carries

\* kolla-readpwd loses only what the vault does not hold.
LEMMA PasswordsRead ==
  ASSUME PasswordInv, readpwd
  PROVE  PasswordInv'
<1> DEFINE f == files["live"]
           c == [k \in DOMAIN f |-> vault[k]]
<1>1. /\ Ready /\ f # NoFile /\ stage # "upgrade"
      /\ rewrite' = <<[file |-> "live", content |-> c, before |-> f]>>
      /\ files' = [files EXCEPT !["live"] = NoFile] /\ lost' = lost \cup Unsaved(f)
      /\ UNCHANGED <<vault, deployed, generated, stage, release, first>>
  BY DEF readpwd, RemoveFile
<1>2. /\ rewrite'[1].file = "live" /\ rewrite'[1].content = c /\ rewrite'[1].before = f
      /\ rewrite' # <<>>
  BY <1>1
<1>3. BasicInv /\ IsFile(f, KeysOf(release)) /\ release \in {1, 2}
  BY <1>1 DEF PasswordInv, BasicInv, RunInv, RestoreInv
<1>4. DOMAIN files' = {"live", "old", "new"} /\ files'["live"] = NoFile
  BY <1>1, <1>3 DEF BasicInv
<1>5. BasicInv'
  BY <1>1, <1>3, <1>4 DEF BasicInv, IsFile
<1>6. /\ KeysOf(release) \subseteq AllKeys /\ Redis \in AllKeys /\ Valkey \in AllKeys
      /\ DOMAIN f = KeysOf(release)
  BY <1>3, KeysKnown DEF IsFile
<1>7. c = [k \in KeysOf(release) |-> vault[k]]
  BY <1>6
<1>8. IsFile(c, KeysOf(release))
  BY <1>3, <1>6, <1>7 DEF IsFile, BasicInv
<1>9. ASSUME stage = "run" PROVE RunInv'
  <2>1. Carries(f)
    BY <1>1, <1>9 DEF PasswordInv, RunInv
  <2>2. /\ DOMAIN c = KeysOf(release) /\ \A k \in KeysOf(release) : c[k] = vault[k]
        /\ \A k \in AllKeys : IsSet(vault[k]) => k \in KeysOf(release)
    BY <1>3, <1>7 DEF BasicInv
  <2>3. /\ Sound(c, vault, deployed, lost \cup Unsaved(f))
        /\ Follows(f, deployed, lost) => Follows(c, deployed, lost \cup Unsaved(f))
    <3> HIDE DEF f, c
    <3>1. Sound(f, vault, deployed, lost)
      BY <2>1 DEF Carries
    <3> QED
      BY <1>6, <2>2, <3>1, VaultReplaces
  <2>4. /\ Sound(f, vault, deployed, lost \cup Unsaved(f))
        /\ Follows(f, deployed, lost) => Follows(f, deployed, lost \cup Unsaved(f))
    <3> HIDE DEF f, c
    <3> QED
      BY <2>1, LostExcuses DEF Carries
  <2> HIDE DEF f, c
  <2> QED
    BY <1>1, <1>2, <1>4, <1>8, <2>1, <2>3, <2>4 DEF RunInv, Ready, Carries
<1>10. ASSUME stage = "restore" PROVE RestoreInv'
  <2>1. Carries(vault)
    BY <1>10 DEF PasswordInv, RestoreInv
  <2> HIDE DEF f, c
  <2>2. /\ Sound(vault, vault, deployed, lost \cup Unsaved(f))
        /\ Follows(vault, deployed, lost) => Follows(vault, deployed, lost \cup Unsaved(f))
    BY <2>1, LostExcuses DEF Carries
  <2>3. Carries(vault)'
    BY <1>1, <2>1, <2>2 DEF Carries
  <2> QED
    BY <1>1, <1>2, <1>4, <1>7, <2>3 DEF RestoreInv, Ready
<1> QED
  BY <1>1, <1>3, <1>5, <1>9, <1>10 DEF PasswordInv, RunInv, RestoreInv, UpgradeInv, BasicInv
\* The file that a tool has prepared takes over.
LEMMA PasswordsWritten ==
  ASSUME PasswordInv, WriteFile
  PROVE  PasswordInv'
<1> DEFINE f == rewrite[1].file
           c == rewrite[1].content
<1>1. /\ ~Ready /\ files' = [files EXCEPT ![f] = c] /\ rewrite' = <<>>
      /\ stage' = (IF f = "live" THEN "run" ELSE stage)
      /\ UNCHANGED <<vault, deployed, generated, release, first, lost>>
  BY DEF WriteFile
<1>2. BasicInv /\ release \in {1, 2} /\ stage \in {"run", "upgrade", "restore"}
      /\ (stage = "upgrade" => release = 2 /\ first = 1)
  BY DEF PasswordInv, BasicInv
<1>3. /\ f = "live" => IsFile(c, KeysOf(release)) /\ Carries(c)
      /\ f = "new" => stage = "upgrade" /\ IsFile(c, KeysOf(2))
      /\ f \in {"live", "new"}
  <2>1. CASE stage = "run"
    BY <1>1, <2>1 DEF PasswordInv, RunInv
  <2>2. CASE stage = "restore"
    <3>1. f = "live" /\ c = [k \in KeysOf(release) |-> vault[k]] /\ Carries(vault)
      BY <1>1, <2>2 DEF PasswordInv, RestoreInv
    <3> HIDE DEF f, c
    <3>2. IsFile(c, KeysOf(release)) /\ Carries(c)
      BY <3>1, VaultFile
    <3> QED
      BY <3>1, <3>2
  <2>3. CASE stage = "upgrade"
    BY <1>1, <1>2, <2>3 DEF PasswordInv, UpgradeInv
  <2> QED
    BY <1>2, <2>1, <2>2, <2>3
<1> HIDE DEF f, c
<1>4. DOMAIN files' = {"live", "old", "new"} /\ files'[f] = c
      /\ \A g \in {"live", "old", "new"} : g # f => files'[g] = files[g]
  BY <1>1, <1>2, <1>3 DEF BasicInv
<1>5. BasicInv'
  BY <1>1, <1>2, <1>4 DEF BasicInv, IsFile
<1>6. ASSUME f = "live" PROVE PasswordInv'
  <2>1. c # NoFile
    BY <1>2, <1>3, <1>6, FilesExist
  <2>2. IsFile(c, KeysOf(release)) /\ Carries(c) /\ files'["live"] = c /\ stage' = "run"
    BY <1>1, <1>3, <1>4, <1>6
  <2>3. RunInv'
    BY <1>1, <2>1, <2>2 DEF RunInv, Ready, Carries
  <2> QED
    BY <1>5, <2>2, <2>3 DEF PasswordInv, RestoreInv, UpgradeInv
<1>7. ASSUME f = "new" PROVE PasswordInv'
  <2>1. stage = "upgrade" /\ IsFile(c, KeysOf(2)) /\ files'["new"] = c /\ files'["old"] = files["old"]
        /\ stage' = "upgrade"
    BY <1>1, <1>3, <1>4, <1>7
  <2>2. UpgradeInv'
    BY <1>1, <2>1 DEF UpgradeInv, Ready, PasswordInv
  <2> QED
    BY <1>5, <2>1, <2>2 DEF PasswordInv, RestoreInv, RunInv
<1> QED
  BY <1>3, <1>6, <1>7

\* What a tool that died has destroyed is in the vault or lost.
LEMMA PasswordsInterrupted ==
  ASSUME PasswordInv, Interrupted
  PROVE  PasswordInv'
<1> DEFINE f == rewrite[1].before
           m == lost \cup Unsaved(f)
<1>1. /\ ~Ready /\ rewrite' = <<>>
      /\ lost' = lost \cup (IF stage # "upgrade" THEN Unsaved(f) ELSE {})
      /\ UNCHANGED <<files, vault, deployed, generated, stage, release, first>>
  BY DEF Interrupted
<1>2. BasicInv /\ stage \in {"run", "upgrade", "restore"}
  BY DEF PasswordInv, BasicInv
<1>3. BasicInv'
  BY <1>1, <1>2 DEF BasicInv, IsFile
<1>4. ASSUME stage = "run" PROVE RunInv'
  <2>1. Carries(f) /\ files["live"] = NoFile
    BY <1>1, <1>4 DEF PasswordInv, RunInv
  <2>2. /\ DOMAIN vault = AllKeys /\ Redis \in AllKeys /\ Valkey \in AllKeys
    BY <1>2, KeysKnown DEF BasicInv, IsFile
  <2>3. lost' = m
    BY <1>1, <1>4
  <2>4. Sound(vault, vault, deployed, m) /\ (Follows(f, deployed, lost) => Follows(vault, deployed, m))
    <3> HIDE DEF f
    <3>1. Sound(f, vault, deployed, lost)
      BY <2>1 DEF Carries
    <3> QED
      BY <2>2, <3>1, VaultReplaces
  <2> HIDE DEF f, m
  <2>5. Carries(vault)'
    BY <1>1, <2>1, <2>3, <2>4 DEF Carries
  <2> QED
    BY <1>1, <2>1, <2>5 DEF RunInv, Ready
<1>5. ASSUME stage = "restore" PROVE RestoreInv'
  <2>1. Carries(vault) /\ (files["live"] # NoFile => IsFile(files["live"], KeysOf(release)))
    BY <1>5 DEF PasswordInv, RestoreInv
  <2>2. lost' = m
    BY <1>1, <1>5
  <2> HIDE DEF f
  <2>3. Sound(vault, vault, deployed, m) /\ (Follows(vault, deployed, lost) => Follows(vault, deployed, m))
    BY <2>1, LostExcuses DEF Carries
  <2> HIDE DEF m
  <2>4. Carries(vault)'
    BY <1>1, <2>1, <2>2, <2>3 DEF Carries
  <2> QED
    BY <1>1, <2>1, <2>4 DEF RestoreInv, Ready
<1>6. ASSUME stage = "upgrade" PROVE UpgradeInv'
  BY <1>1, <1>6 DEF PasswordInv, UpgradeInv, Ready
<1> QED
  BY <1>1, <1>2, <1>3, <1>4, <1>5, <1>6 DEF PasswordInv, RunInv, RestoreInv, UpgradeInv

\* A deployment uses the values of the live file.
LEMMA PasswordsDeployed ==
  ASSUME PasswordInv, Deploy
  PROVE  PasswordInv'
<1> DEFINE f == files["live"]
<1>1. /\ Ready /\ f # NoFile /\ stage = "run"
      /\ \A k \in AllKeys : deployed'[k] = IF Has(f, k) THEN f[k] ELSE deployed[k]
      /\ UNCHANGED <<files, vault, generated, rewrite, stage, release, first, lost>>
  BY DEF Deploy, Has
<1>2. BasicInv /\ IsFile(f, KeysOf(release)) /\ Carries(f)
  BY <1>1 DEF PasswordInv, RunInv
<1> HIDE DEF f
<1>3. DOMAIN f = KeysOf(release) /\ Redis \in AllKeys /\ Valkey \in AllKeys
  BY <1>2, KeysKnown DEF IsFile
<1>4. \A k \in AllKeys \ KeysOf(release) : ~IsSet(vault'[k]) /\ ~IsSet(deployed'[k])
  BY <1>1, <1>2, <1>3 DEF BasicInv, Has
<1>5. BasicInv'
  BY <1>1, <1>2, <1>4 DEF BasicInv, IsFile
<1>6. Sound(f, vault, deployed', lost)
  BY <1>1, <1>2 DEF Carries, Sound
<1>7. ASSUME first = 1, release = 2 PROVE Follows(f, deployed', lost)
  <2> SUFFICES ASSUME Redis \notin lost, Valkey \notin lost
               PROVE  /\ Has(f, Redis) => Has(f, Valkey)
                      /\ IsSet(deployed'[Redis]) /\ ~IsSet(deployed'[Valkey]) =>
                            Has(f, Valkey) /\ f[Valkey] = f[Redis]
    BY DEF Follows
  <2>1. Has(f, Redis) => Has(f, Valkey)
    BY <1>2, <1>7 DEF Carries, Follows
  <2>2. Has(f, Valkey) => IsSet(deployed'[Valkey])
    BY <1>1, <1>3 DEF Has
  <2>3. IsSet(deployed'[Redis]) => Has(f, Redis)
    BY <1>3, <1>6 DEF Sound
  <2> QED
    BY <2>1, <2>2, <2>3
<1>8. RunInv'
  BY <1>1, <1>2, <1>6, <1>7 DEF RunInv, Ready, Carries, f
<1> QED
  BY <1>1, <1>5, <1>8 DEF PasswordInv, RestoreInv, UpgradeInv
\* An upgrade keeps the values in the old file.
LEMMA PasswordsUpgraded ==
  ASSUME PasswordInv, Upgrade
  PROVE  PasswordInv'
<1>1. /\ Ready /\ files["live"] # NoFile /\ stage = "run" /\ release = 1
      /\ files' = [files EXCEPT !["old"] = files["live"], !["new"] = Sample(2)]
      /\ stage' = "upgrade" /\ release' = 2
      /\ UNCHANGED <<vault, deployed, generated, rewrite, first, lost>>
  BY DEF Upgrade
<1>2. BasicInv /\ IsFile(files["live"], KeysOf(1)) /\ Sound(files["live"], vault, deployed, lost)
  BY <1>1 DEF PasswordInv, RunInv, Carries
<1>3. /\ DOMAIN files' = {"live", "old", "new"}
      /\ files'["old"] = files["live"] /\ files'["new"] = Sample(2)
  BY <1>1, <1>2 DEF BasicInv
<1>4. IsFile(Sample(2), KeysOf(2))
  BY SampleIsFile
<1>5. first = 1
  BY <1>1, <1>2 DEF BasicInv
<1>6. \A k \in AllKeys \ KeysOf(2) : FALSE
  BY KeysKnown
<1>7. BasicInv'
  BY <1>1, <1>2, <1>3, <1>5, <1>6 DEF BasicInv, IsFile
<1>8. UpgradeInv'
  BY <1>1, <1>2, <1>3, <1>4 DEF UpgradeInv, Ready
<1> QED
  BY <1>1, <1>7, <1>8 DEF PasswordInv, RunInv, RestoreInv

\* A sample takes the place of a missing file.
LEMMA PasswordsCopied ==
  ASSUME PasswordInv, NEW f \in {"live", "new"}, CopySample(f)
  PROVE  PasswordInv'
<1>1. /\ Ready /\ files[f] = NoFile /\ (IF stage = "upgrade" THEN f = "new" ELSE f = "live")
      /\ files' = [files EXCEPT ![f] = Sample(release)]
      /\ stage' = (IF f = "live" THEN "restore" ELSE stage)
      /\ UNCHANGED <<vault, deployed, generated, rewrite, release, first, lost>>
  BY DEF CopySample
<1>2. BasicInv /\ release \in {1, 2} /\ stage \in {"run", "upgrade", "restore"}
  BY DEF PasswordInv, BasicInv
<1>3. DOMAIN files' = {"live", "old", "new"} /\ files'[f] = Sample(release)
      /\ \A g \in {"live", "old", "new"} : g # f => files'[g] = files[g]
  BY <1>1, <1>2 DEF BasicInv
<1>4. IsFile(Sample(release), KeysOf(release))
  BY <1>2, SampleIsFile
<1>5. BasicInv'
  BY <1>1, <1>2, <1>3 DEF BasicInv, IsFile
<1>6. ASSUME f = "live" PROVE PasswordInv'
  <2>1. Carries(vault) /\ stage' = "restore" /\ files'["live"] = Sample(release)
    BY <1>1, <1>2, <1>3, <1>6 DEF PasswordInv, RunInv, RestoreInv
  <2>2. RestoreInv'
    BY <1>1, <1>4, <2>1 DEF RestoreInv, Carries, Ready
  <2> QED
    BY <1>5, <2>1, <2>2 DEF PasswordInv, RunInv, UpgradeInv
<1>7. ASSUME f = "new" PROVE PasswordInv'
  <2>1. stage = "upgrade" /\ stage' = "upgrade" /\ files'["new"] = Sample(release) /\ release = 2
        /\ files'["old"] = files["old"]
    BY <1>1, <1>2, <1>3, <1>7 DEF BasicInv
  <2>2. UpgradeInv'
    BY <1>1, <1>4, <2>1 DEF UpgradeInv, Ready, PasswordInv
  <2> QED
    BY <1>5, <2>1, <2>2 DEF PasswordInv, RunInv, RestoreInv
<1> QED
  BY <1>6, <1>7

\* The passwords are where they should be after every step of the tools.
LEMMA PasswordsKept ==
  ASSUME PasswordInv, PasswordNext \/ UNCHANGED passwordVars
  PROVE  PasswordInv'
<1>1. CASE \E f \in {"live", "new"} : genpwd(f) \/ CopySample(f)
  BY <1>1, PasswordsGenerated, PasswordsCopied
<1>2. CASE \E clean \in BOOLEAN : mergepwd(clean)
  BY <1>2, PasswordsMerged
<1>3. CASE \E kept \in SUBSET AllKeys : writepwd(kept)
  BY <1>3, PasswordsSaved
<1>4. CASE readpwd \/ WriteFile \/ Interrupted \/ Deploy \/ Upgrade
  BY <1>4, PasswordsRead, PasswordsWritten, PasswordsInterrupted, PasswordsDeployed, PasswordsUpgraded
<1>5. CASE UNCHANGED passwordVars
  BY <1>5 DEF passwordVars, PasswordInv, BasicInv, RunInv, RestoreInv, UpgradeInv, Ready, Carries, IsFile
<1> QED
  BY <1>1, <1>2, <1>3, <1>4, <1>5 DEF PasswordNext

\* Only a deployment changes what the services use, and it finds the values in the
\* live file: those deployed before, and Redis's for a Valkey that comes with an upgrade.
LEMMA DeployedKept ==
  ASSUME PasswordInv, PasswordNext
  PROVE  /\ \A k \in AllKeys \ lost : IsSet(deployed[k]) => deployed'[k] = deployed[k]
         /\ (/\ first = 1 /\ IsSet(deployed[Redis])
             /\ ~IsSet(deployed[Valkey]) /\ IsSet(deployed'[Valkey])
             /\ {Redis, Valkey} \cap lost = {})
            => deployed'[Valkey] = deployed[Redis]
<1>1. CASE deployed' = deployed
  BY <1>1
<1>2. CASE Deploy
  <2> DEFINE f == files["live"]
  <2>1. \A k \in AllKeys : deployed'[k] = IF Has(f, k) THEN f[k] ELSE deployed[k]
    BY <1>2 DEF Deploy, Has
  <2>2. IsFile(f, KeysOf(release)) /\ Carries(f) /\ release \in {1, 2}
    BY <1>2 DEF Deploy, PasswordInv, BasicInv, RunInv
  <2> HIDE DEF f
  <2>3. \A k \in AllKeys \ lost : IsSet(deployed[k]) => Has(f, k) /\ f[k] = deployed[k]
    BY <2>2 DEF Carries, Sound
  <2>4. ASSUME first = 1, IsSet(deployed[Redis]), ~IsSet(deployed[Valkey]), IsSet(deployed'[Valkey]),
               {Redis, Valkey} \cap lost = {}
        PROVE  deployed'[Valkey] = deployed[Redis]
    <3>1. Redis \in AllKeys \ lost /\ Valkey \in AllKeys
      BY <2>4, KeysKnown
    <3>2. Has(f, Valkey)
      BY <2>1, <2>4, <3>1
    <3>3. release = 2
      BY <2>2, <3>2, KeysKnown DEF Has, IsFile
    <3>4. f[Valkey] = f[Redis]
      BY <2>2, <2>4, <3>3 DEF Carries, Follows
    <3> QED
      BY <2>1, <2>3, <2>4, <3>1, <3>2, <3>4
  <2> QED
    BY <2>1, <2>3, <2>4
<1> QED
  BY <1>1, <1>2 DEF PasswordNext, genpwd, CopySample, mergepwd, writepwd, readpwd, WriteFile, Interrupted, Upgrade

\* A password that is in use stays what it is through kolla-genpwd, kolla-mergepwd,
\* kolla-writepwd, kolla-readpwd and upgrades, whichever of them dies halfway, unless
\* its value was destroyed while the vault had no copy.
THEOREM PasswordsStayInUse == Spec => PasswordsStable
<1> DEFINE A == /\ \A k \in AllKeys \ lost : IsSet(deployed[k]) => deployed'[k] = deployed[k]
                /\ (/\ first = 1 /\ IsSet(deployed["redis_master_password"])
                    /\ ~IsSet(deployed["valkey_master_password"]) /\ IsSet(deployed'["valkey_master_password"])
                    /\ {"redis_master_password", "valkey_master_password"} \cap lost = {})
                   => deployed'["valkey_master_password"] = deployed["redis_master_password"]
<1>1. Init => PasswordInv
  BY PasswordInitial DEF Init
<1>2. [Next]_vars => PasswordNext \/ UNCHANGED passwordVars
  BY DEF Next, vars, CompareContainer, MergeIni, MergeYaml, ScheduleRotations, ValidateInputs,
     Compute, KeepPasswords, PrepareImages
<1>3. PasswordInv /\ [Next]_vars => PasswordInv'
  BY <1>2, PasswordsKept
<1>4. PasswordInv /\ [Next]_vars => [A]_passwordVars
  <2>1. PasswordInv /\ PasswordNext => A
    BY DeployedKept DEF Redis, Valkey
  <2> QED
    BY <1>2, <2>1
<1> QED
  BY <1>1, <1>3, <1>4, PTL DEF Spec, PasswordsStable
=============================================================================
