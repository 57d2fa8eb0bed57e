------------------------ MODULE ServiceContainerProofs ------------------------
(***************************************************************************)
(* The order of the steps of kolla_container, for any requests, calls,     *)
(* images and failures.                                                    *)
(***************************************************************************)
EXTENDS ServiceContainer, ContainerSpecProofs, SequenceTheorems

-----------------------------------------------------------------------------
(***************************************************************************)
(* The steps that the module has left.  Step b may follow step a.          *)
(***************************************************************************)

Link(a, b) ==
    /\ a \notin {"decide", "remove_image"} /\ b \notin {"unit", "decide", "pull"}
    /\ b = "remove" => a = "unlink"
    /\ b = "run" => a \in {"create", "unit"}
    /\ b = "fit" => a \in {"ensure", "pull"}
    /\ b = "create" => a \in {"fit", "remove"}
    /\ a = "fit" => b = "create"

Steps ==
    {"compare", "ensure", "pull", "decide", "fit", "create", "unit", "run", "wait", "rc_zero",
     "rc_error", "StartUnit", "StopUnit", "RestartUnit", "await_running", "await_dead",
     "engine_start", "engine_stop", "stop", "unlink", "remove", "clear", "restart",
     "create_volume", "remove_volume", "remove_image"}

\* A sequence of steps: each may follow the one before, and at most one creates.
Chain(s) ==
    /\ s \in Seq(Steps)
    /\ \A k \in 2..Len(s) : Link(s[k - 1], s[k])
    /\ \A j, k \in 1..Len(s) : s[j] = "create" /\ s[k] = "create" => j = k

\* The container is removed just before one is created.
Replaces(s) == \E k \in 2..Len(s) : s[k - 1] = "remove" /\ s[k] = "create"

\* Steps that need the image are left.
NeedsImage(s) == \E k \in 1..Len(s) : s[k] \in {"ensure", "create"}

\* What each step relies on when its turn comes.
Ready ==
    /\ todo = <<>> \/ res = "none"
    /\ At("remove") => unit.file = None
    /\ At("run") \/ At("unit") => cont # None
    /\ At("create") => (seen = None <=> cont = None)
    /\ Replaces(todo) => seen = None
    /\ At("decide") \/ At("pull") => "service" \notin touched
    /\ At("ensure") /\ image = None => "service" \notin touched
    /\ NeedsImage(todo) => At("ensure") \/ At("pull") \/ image # None

Types ==
    /\ req \in DOMAIN Requests /\ config \in {0, 1}
    /\ image \in Images \cup {None} /\ registry \in Images \cup {None}
    /\ cont = None \/ cont \in Containers
    /\ unit = [file |-> unit.file, loaded |-> unit.loaded, sub |-> unit.sub, job |-> unit.job]

Inv == Types /\ Chain(todo) /\ Ready /\ NoOrphanUnit /\ FailedPullSparesService

-----------------------------------------------------------------------------

\* t is s with its first step replaced by the steps m.
Pushed(s, m, t) ==
    /\ t \in Seq(Steps) /\ Len(s) \in Nat \ {0} /\ Len(m) \in Nat
    /\ Len(t) = Len(m) + Len(s) - 1
    /\ \A i \in 1..Len(m) : t[i] = m[i]
    /\ \A i \in (Len(m) + 1)..Len(t) : t[i] = s[i - Len(m) + 1]

LEMMA PushShape ==
  ASSUME NEW s \in Seq(Steps), s # <<>>, NEW m \in Seq(Steps)
  PROVE  Pushed(s, m, m \o Tail(s))
<1> DEFINE t == m \o Tail(s)
<1>1. Len(s) \in Nat \ {0} /\ Len(m) \in Nat
  BY EmptySeq, LenProperties
<1>2. /\ Tail(s) \in Seq(Steps) /\ Len(Tail(s)) = Len(s) - 1
      /\ \A i \in 1..Len(Tail(s)) : Tail(s)[i] = s[i + 1]
  BY HeadTailProperties
<1>3. /\ t \in Seq(Steps) /\ Len(t) = Len(m) + Len(Tail(s))
      /\ \A i \in 1..(Len(m) + Len(Tail(s))) :
            t[i] = IF i <= Len(m) THEN m[i] ELSE Tail(s)[i - Len(m)]
  BY <1>2, ConcatProperties
<1> HIDE DEF t
<1>4. ASSUME NEW i \in (Len(m) + 1)..Len(t) PROVE t[i] = s[i - Len(m) + 1]
  <2>1. i - Len(m) \in 1..Len(Tail(s)) /\ i \in 1..(Len(m) + Len(Tail(s))) /\ ~(i <= Len(m))
    BY <1>1, <1>2, <1>3, <1>4
  <2>2. QED
    BY <2>1, <1>2, <1>3
<1>5. ASSUME NEW i \in 1..Len(m) PROVE t[i] = m[i]
  <2>1. i \in 1..(Len(m) + Len(Tail(s))) /\ i <= Len(m)
    BY <1>1, <1>2, <1>5
  <2>2. QED
    BY <2>1, <1>3
<1>6. Len(t) = Len(m) + Len(s) - 1
  BY <1>1, <1>2, <1>3
<1>7. Pushed(s, m, t)
  BY <1>1, <1>3, <1>4, <1>5, <1>6 DEF Pushed
<1>8. QED
  BY <1>7 DEF t

\* Steps that may stand where the first one stood make a chain again.
LEMMA PushChain ==
  ASSUME NEW s, Chain(s), s # <<>>, NEW m, Chain(m),
         m = <<>> \/ \A b : Link(s[1], b) => Link(m[Len(m)], b),
         Len(s) = 1 \/ \A k \in 1..Len(m) : m[k] # "create",
         NEW t, Pushed(s, m, t)
  PROVE  Chain(t)
<1>1. /\ t \in Seq(Steps) /\ Len(s) \in Nat \ {0} /\ Len(m) \in Nat
      /\ Len(t) = Len(m) + Len(s) - 1
      /\ \A i \in 1..Len(m) : t[i] = m[i]
      /\ \A i \in (Len(m) + 1)..Len(t) : t[i] = s[i - Len(m) + 1]
  BY DEF Pushed
<1>2. ASSUME NEW k \in 2..Len(t) PROVE Link(t[k - 1], t[k])
  <2>1. CASE k <= Len(m)
    <3>1. k \in 2..Len(m) /\ t[k] = m[k] /\ t[k - 1] = m[k - 1]
      BY <1>1, <1>2, <2>1
    <3>2. QED
      BY <3>1 DEF Chain
  <2>2. CASE k = Len(m) + 1
    <3>1. m # <<>> /\ t[k - 1] = m[Len(m)] /\ t[k] = s[2] /\ 2 \in 2..Len(s)
      BY <1>1, <1>2, <2>2, EmptySeq
    <3>2. Link(s[2 - 1], s[2])
      BY <3>1 DEF Chain
    <3>3. QED
      BY <3>1, <3>2
  <2>3. CASE k > Len(m) + 1
    <3> DEFINE j == k - Len(m) + 1
    <3>1. j \in 2..Len(s) /\ t[k] = s[j] /\ t[k - 1] = s[j - 1]
      <4>1. k - 1 \in (Len(m) + 1)..Len(t) /\ k \in (Len(m) + 1)..Len(t)
            /\ (k - 1) - Len(m) + 1 = j - 1 /\ j \in 2..Len(s)
        BY <1>1, <1>2, <2>3
      <4>2. QED
        BY <4>1, <1>1
    <3>2. Link(s[j - 1], s[j])
      BY <3>1 DEF Chain
    <3>3. QED
      BY <3>1, <3>2
  <2>4. QED
    BY <1>1, <1>2, <2>1, <2>2, <2>3
<1>3. ASSUME NEW j \in 1..Len(t), NEW k \in 1..Len(t), t[j] = "create", t[k] = "create"
      PROVE  j = k
  <2>1. CASE Len(s) = 1
    <3>1. j \in 1..Len(m) /\ k \in 1..Len(m)
      BY <1>1, <1>3, <2>1
    <3>2. QED
      BY <3>1, <1>1, <1>3 DEF Chain
  <2>2. CASE \A i \in 1..Len(m) : m[i] # "create"
    <3>1. j \in (Len(m) + 1)..Len(t) /\ k \in (Len(m) + 1)..Len(t)
      <4>1. j \notin 1..Len(m) /\ k \notin 1..Len(m)
        BY <1>1, <1>3, <2>2
      <4>2. Len(m) \in Nat /\ Len(t) \in Int
        BY <1>1
      <4>3. QED
        BY <4>1, <4>2
    <3>2. /\ s[j - Len(m) + 1] = "create" /\ s[k - Len(m) + 1] = "create"
          /\ j - Len(m) + 1 \in 1..Len(s) /\ k - Len(m) + 1 \in 1..Len(s)
      BY <1>1, <1>3, <3>1
    <3>3. j - Len(m) + 1 = k - Len(m) + 1
      BY <3>2 DEF Chain
    <3>4. QED
      BY <3>1, <3>3, <1>1
  <2>3. QED
    BY <2>1, <2>2
<1>4. QED
  BY <1>1, <1>2, <1>3 DEF Chain

\* Nothing follows a decision, or the removal of the image.
LEMMA Alone ==
  ASSUME NEW s, Chain(s), s # <<>>, s[1] \in {"decide", "remove_image"}
  PROVE  Len(s) = 1
<1>1. Len(s) \in Nat \ {0}
  BY EmptySeq DEF Chain
<1>2. 2 \in 2..Len(s) => Link(s[2 - 1], s[2])
  BY DEF Chain
<1>3. ~(2 \in 2..Len(s))
  BY <1>2 DEF Link
<1>4. \A n \in Nat \ {0} : n = 1 \/ 2 \in 2..n
  OBVIOUS
<1>5. QED
  BY <1>1, <1>3, <1>4

\* What is left afterwards was left before or has just been called for.
LEMMA PushContents ==
  ASSUME NEW s, Chain(s), s # <<>>, NEW m, Chain(m), ~Replaces(m),
         NEW t, Pushed(s, m, t)
  PROVE  /\ NeedsImage(t) => NeedsImage(s) \/ NeedsImage(m)
         /\ Replaces(t) => Replaces(s) \/ (m # <<>> /\ s[1] \in {"fit", "remove"})
         /\ m = <<>> /\ t # <<>> => t[1] = s[2] /\ Link(s[1], t[1])
         /\ m # <<>> => t # <<>> /\ t[1] = m[1]
         /\ s[1] \in {"decide", "remove_image"} => Len(s) = 1 /\ t = m
<1>1. /\ t \in Seq(Steps) /\ Len(s) \in Nat \ {0} /\ Len(m) \in Nat
      /\ Len(t) = Len(m) + Len(s) - 1
      /\ \A i \in 1..Len(m) : t[i] = m[i]
      /\ \A i \in (Len(m) + 1)..Len(t) : t[i] = s[i - Len(m) + 1]
  BY DEF Pushed
<1>2. ASSUME NeedsImage(t) PROVE NeedsImage(s) \/ NeedsImage(m)
  <2>1. PICK k \in 1..Len(t) : t[k] \in {"ensure", "create"}
    BY <1>2 DEF NeedsImage
  <2>2. CASE k <= Len(m)
    <3>1. k \in 1..Len(m) /\ t[k] = m[k]
      BY <1>1, <2>2
    <3>2. QED
      BY <2>1, <3>1 DEF NeedsImage
  <2>3. CASE k > Len(m)
    <3>1. k - Len(m) + 1 \in 1..Len(s) /\ t[k] = s[k - Len(m) + 1]
      BY <1>1, <2>3
    <3>2. QED
      BY <2>1, <3>1 DEF NeedsImage
  <2>4. QED
    BY <1>1, <2>2, <2>3
<1>3. ASSUME Replaces(t) PROVE Replaces(s) \/ (m # <<>> /\ s[1] \in {"fit", "remove"})
  <2>1. PICK k \in 2..Len(t) : t[k - 1] = "remove" /\ t[k] = "create"
    BY <1>3 DEF Replaces
  <2>2. CASE k <= Len(m)
    <3>1. k \in 2..Len(m) /\ t[k] = m[k] /\ t[k - 1] = m[k - 1]
      BY <1>1, <2>2
    <3>2. QED
      BY <2>1, <3>1 DEF Replaces
  <2>3. CASE k = Len(m) + 1
    <3>1. m # <<>> /\ t[k] = s[2] /\ 2 \in 2..Len(s)
      BY <1>1, <2>3, EmptySeq
    <3>2. Link(s[2 - 1], s[2])
      BY <3>1 DEF Chain
    <3>3. QED
      BY <2>1, <3>1, <3>2 DEF Link
  <2>4. CASE k > Len(m) + 1
    <3> DEFINE j == k - Len(m) + 1
    <3>1. j \in 2..Len(s) /\ t[k] = s[j] /\ t[k - 1] = s[j - 1]
      <4>1. k - 1 \in (Len(m) + 1)..Len(t) /\ k \in (Len(m) + 1)..Len(t)
            /\ (k - 1) - Len(m) + 1 = j - 1 /\ j \in 2..Len(s)
        BY <1>1, <2>4
      <4>2. QED
        BY <4>1, <1>1
    <3>2. QED
      BY <2>1, <3>1 DEF Replaces
  <2>5. QED
    BY <1>1, <2>2, <2>3, <2>4
<1>4. ASSUME m = <<>>, t # <<>> PROVE t[1] = s[2] /\ Link(s[1], t[1])
  <2>1. Len(m) = 0 /\ Len(t) \in Nat \ {0}
    BY <1>1, <1>4, EmptySeq
  <2>2. t[1] = s[2] /\ 2 \in 2..Len(s)
    BY <1>1, <2>1
  <2>3. Link(s[2 - 1], s[2])
    BY <2>2 DEF Chain
  <2>4. QED
    BY <2>2, <2>3
<1>5. ASSUME m # <<>> PROVE t # <<>> /\ t[1] = m[1]
  <2>1. Len(m) \in Nat \ {0} /\ Len(t) # 0
    BY <1>1, <1>5, EmptySeq DEF Chain
  <2>2. QED
    BY <1>1, <2>1, EmptySeq
<1>6. ASSUME s[1] \in {"decide", "remove_image"} PROVE Len(s) = 1 /\ t = m
  <2>1. Len(s) = 1
    BY <1>6, Alone
  <2>2. m \in Seq(Steps) /\ Len(t) = Len(m) /\ \A i \in 1..Len(t) : t[i] = m[i]
    BY <1>1, <2>1 DEF Chain
  <2>3. t = m
    BY <1>1, <2>2, SeqEqual
  <2>4. QED
    BY <2>1, <2>3
<1>7. QED
  BY <1>2, <1>3, <1>4, <1>5, <1>6

\* A container is created once: nothing is replaced after the first look.
LEMMA CreatesOnce ==
  ASSUME NEW s, Chain(s), s # <<>>, s[1] \in {"fit", "create"}
  PROVE  ~Replaces(s)
<1>1. SUFFICES ASSUME Replaces(s) PROVE FALSE
  OBVIOUS
<1>2. PICK k \in 2..Len(s) : s[k - 1] = "remove" /\ s[k] = "create"
  BY <1>1 DEF Replaces
<1>3. Len(s) \in Nat /\ 2 \in 2..Len(s) /\ 1 \in 1..Len(s) /\ k \in 1..Len(s)
  BY <1>2, LenProperties DEF Chain
<1>4. Link(s[2 - 1], s[2])
  BY <1>3 DEF Chain
<1>5. CASE s[1] = "create"
  BY <1>2, <1>3, <1>5 DEF Chain
<1>6. CASE s[1] = "fit"
  <2>1. s[2] = "create" /\ 2 \in 1..Len(s)
    BY <1>3, <1>4, <1>6 DEF Link
  <2>2. k = 2
    BY <2>1, <1>2, <1>3 DEF Chain
  <2>3. QED
    BY <2>2, <1>2, <1>6
<1>7. QED
  BY <1>5, <1>6

\* The sequences of steps that the operations call for.
LEMMA Tuples ==
  ASSUME NEW S, NEW a \in S, NEW b \in S, NEW c \in S, NEW d \in S, NEW e \in S
  PROVE  /\ <<a>> \in Seq(S) /\ Len(<<a>>) = 1 /\ <<a>>[1] = a
         /\ <<a, b>> \in Seq(S) /\ Len(<<a, b>>) = 2 /\ <<a, b>>[1] = a /\ <<a, b>>[2] = b
         /\ <<a, b, c>> \in Seq(S) /\ Len(<<a, b, c>>) = 3
         /\ <<a, b, c>>[1] = a /\ <<a, b, c>>[2] = b /\ <<a, b, c>>[3] = c
         /\ <<a, b, c, d>> \in Seq(S) /\ Len(<<a, b, c, d>>) = 4
         /\ <<a, b, c, d>>[1] = a /\ <<a, b, c, d>>[2] = b
         /\ <<a, b, c, d>>[3] = c /\ <<a, b, c, d>>[4] = d
         /\ <<a, b, c, d, e>> \in Seq(S) /\ Len(<<a, b, c, d, e>>) = 5
         /\ <<a, b, c, d, e>>[1] = a /\ <<a, b, c, d, e>>[2] = b /\ <<a, b, c, d, e>>[3] = c
         /\ <<a, b, c, d, e>>[4] = d /\ <<a, b, c, d, e>>[5] = e
OBVIOUS

\* Sequences that neither create nor look for the image.
LEMMA Plain ==
  ASSUME NEW s \in Seq(Steps), \A k \in 1..Len(s) : s[k] # "create" /\ s[k] # "ensure",
         \A k \in 2..Len(s) : Link(s[k - 1], s[k])
  PROVE  Chain(s) /\ ~Replaces(s) /\ ~NeedsImage(s)
<1>1. Len(s) \in Nat
  BY LenProperties
<1>2. \A k \in 2..Len(s) : k \in 1..Len(s)
  BY <1>1
<1>3. QED
  BY <1>2 DEF Chain, Replaces, NeedsImage

LEMMA ShortChains ==
  ASSUME NEW a \in Steps \ {"create", "ensure"}, NEW b \in Steps \ {"create", "ensure"},
         NEW c \in Steps \ {"create", "ensure"}, NEW d \in Steps \ {"create", "ensure"}
  PROVE  /\ Chain(<<>>) /\ ~Replaces(<<>>) /\ ~NeedsImage(<<>>)
         /\ Chain(<<a>>) /\ ~Replaces(<<a>>) /\ ~NeedsImage(<<a>>)
         /\ Link(a, b) => Chain(<<a, b>>) /\ ~Replaces(<<a, b>>) /\ ~NeedsImage(<<a, b>>)
         /\ Link(a, b) /\ Link(b, c) =>
              Chain(<<a, b, c>>) /\ ~Replaces(<<a, b, c>>) /\ ~NeedsImage(<<a, b, c>>)
         /\ Link(a, b) /\ Link(b, c) /\ Link(c, d) =>
              Chain(<<a, b, c, d>>) /\ ~Replaces(<<a, b, c, d>>) /\ ~NeedsImage(<<a, b, c, d>>)
<1>1. Chain(<<>>) /\ ~Replaces(<<>>) /\ ~NeedsImage(<<>>)
  BY DEF Chain, Replaces, NeedsImage
<1>2. Chain(<<a>>) /\ ~Replaces(<<a>>) /\ ~NeedsImage(<<a>>)
  <2>1. ASSUME NEW s, s = <<a>> PROVE Chain(s) /\ ~Replaces(s) /\ ~NeedsImage(s)
    <3>1. s \in Seq(Steps) /\ Len(s) = 1 /\ s[1] = a
      BY <2>1, Tuples
    <3>2. \A k \in 1..Len(s) : s[k] # "create" /\ s[k] # "ensure"
      BY <3>1
    <3>3. \A k \in 2..Len(s) : Link(s[k - 1], s[k])
      BY <3>1
    <3>4. QED
      BY <3>1, <3>2, <3>3, Plain
  <2>2. QED
    BY <2>1
<1>3. ASSUME Link(a, b)
      PROVE  Chain(<<a, b>>) /\ ~Replaces(<<a, b>>) /\ ~NeedsImage(<<a, b>>)
  <2>1. ASSUME NEW s, s = <<a, b>> PROVE Chain(s) /\ ~Replaces(s) /\ ~NeedsImage(s)
    <3>1. s \in Seq(Steps) /\ Len(s) = 2 /\ s[1] = a /\ s[2] = b
      BY <2>1, Tuples
    <3>2. \A k \in 1..Len(s) : s[k] # "create" /\ s[k] # "ensure"
      BY <3>1
    <3>3. \A k \in 2..Len(s) : Link(s[k - 1], s[k])
      BY <1>3, <3>1
    <3>4. QED
      BY <3>1, <3>2, <3>3, Plain
  <2>2. QED
    BY <2>1
<1>4. ASSUME Link(a, b), Link(b, c)
      PROVE  Chain(<<a, b, c>>) /\ ~Replaces(<<a, b, c>>) /\ ~NeedsImage(<<a, b, c>>)
  <2>1. ASSUME NEW s, s = <<a, b, c>> PROVE Chain(s) /\ ~Replaces(s) /\ ~NeedsImage(s)
    <3>1. s \in Seq(Steps) /\ Len(s) = 3 /\ s[1] = a /\ s[2] = b /\ s[3] = c
      BY <2>1, Tuples
    <3>2. \A k \in 1..Len(s) : s[k] # "create" /\ s[k] # "ensure"
      BY <3>1
    <3>3. \A k \in 2..Len(s) : Link(s[k - 1], s[k])
      BY <1>4, <3>1
    <3>4. QED
      BY <3>1, <3>2, <3>3, Plain
  <2>2. QED
    BY <2>1
<1>5. ASSUME Link(a, b), Link(b, c), Link(c, d)
      PROVE  Chain(<<a, b, c, d>>) /\ ~Replaces(<<a, b, c, d>>) /\ ~NeedsImage(<<a, b, c, d>>)
  <2>1. ASSUME NEW s, s = <<a, b, c, d>> PROVE Chain(s) /\ ~Replaces(s) /\ ~NeedsImage(s)
    <3>1. s \in Seq(Steps) /\ Len(s) = 4 /\ s[1] = a /\ s[2] = b /\ s[3] = c /\ s[4] = d
      BY <2>1, Tuples
    <3>2. \A k \in 1..Len(s) : s[k] # "create" /\ s[k] # "ensure"
      BY <3>1
    <3>3. \A k \in 2..Len(s) : Link(s[k - 1], s[k])
      BY <1>5, <3>1
    <3>4. QED
      BY <3>1, <3>2, <3>3, Plain
  <2>2. QED
    BY <2>1
<1>6. QED
  BY <1>1, <1>2, <1>3, <1>4, <1>5

LEMMA Starting ==
  /\ Chain(StartSteps) /\ ~Replaces(StartSteps)
  /\ Len(StartSteps) = 5 /\ StartSteps[1] = "ensure" /\ StartSteps[5] = "wait"
<1>1. {"ensure", "fit", "create", "run", "wait"} \subseteq Steps
  BY DEF Steps
<1>2. /\ StartSteps \in Seq(Steps) /\ Len(StartSteps) = 5
      /\ StartSteps[1] = "ensure" /\ StartSteps[2] = "fit" /\ StartSteps[3] = "create"
      /\ StartSteps[4] = "run" /\ StartSteps[5] = "wait"
  BY <1>1, Tuples DEF StartSteps
<1>3. QED
  BY <1>2 DEF Chain, Replaces, Link

LEMMA Recreating ==
  /\ Chain(RecreateSteps) /\ ~Replaces(RecreateSteps)
  /\ Len(RecreateSteps) = 9 /\ RecreateSteps[1] = "ensure" /\ RecreateSteps[9] = "wait"
<1>1. {"ensure", "stop", "unlink", "remove"} \subseteq Steps
  BY DEF Steps
<1> DEFINE u == <<"ensure", "stop">>
           v == u \o RemoveSteps
<1>2. /\ u \in Seq(Steps) /\ Len(u) = 2 /\ u[1] = "ensure" /\ u[2] = "stop"
      /\ RemoveSteps \in Seq(Steps) /\ Len(RemoveSteps) = 2
      /\ RemoveSteps[1] = "unlink" /\ RemoveSteps[2] = "remove"
  BY <1>1, Tuples DEF RemoveSteps
<1> HIDE DEF u
<1>3. /\ v \in Seq(Steps) /\ Len(v) = 4
      /\ v[1] = "ensure" /\ v[2] = "stop" /\ v[3] = "unlink" /\ v[4] = "remove"
  <2>1. /\ v \in Seq(Steps) /\ Len(v) = 4
        /\ \A i \in 1..4 : v[i] = IF i <= 2 THEN u[i] ELSE RemoveSteps[i - 2]
    BY <1>2, ConcatProperties
  <2>2. QED
    BY <1>2, <2>1
<1>4. RecreateSteps = v \o StartSteps
  <2>1. StartSteps \in Seq(Steps)
    BY Starting DEF Chain
  <2>2. QED
    BY <1>2, <2>1, ConcatAssociative DEF RecreateSteps, u
<1> HIDE DEF v
<1>5. /\ StartSteps \in Seq(Steps) /\ Len(StartSteps) = 5
      /\ StartSteps[1] = "ensure" /\ StartSteps[2] = "fit" /\ StartSteps[3] = "create"
      /\ StartSteps[4] = "run" /\ StartSteps[5] = "wait"
  BY Starting DEF Chain, StartSteps
<1>6. /\ RecreateSteps \in Seq(Steps) /\ Len(RecreateSteps) = 9
      /\ \A i \in 1..9 : RecreateSteps[i] = IF i <= 4 THEN v[i] ELSE StartSteps[i - 4]
  <2>1. /\ v \o StartSteps \in Seq(Steps) /\ Len(v \o StartSteps) = Len(v) + Len(StartSteps)
        /\ \A i \in 1..(Len(v) + Len(StartSteps)) :
              (v \o StartSteps)[i] = IF i <= Len(v) THEN v[i] ELSE StartSteps[i - Len(v)]
    BY <1>3, <1>5, ConcatProperties
  <2>2. Len(v) = 4 /\ Len(StartSteps) = 5 /\ Len(v) + Len(StartSteps) = 9
    BY <1>3, <1>5
  <2>3. QED
    BY <1>4, <2>1, <2>2
<1>7. /\ RecreateSteps[1] = "ensure" /\ RecreateSteps[2] = "stop"
      /\ RecreateSteps[3] = "unlink" /\ RecreateSteps[4] = "remove"
      /\ RecreateSteps[5] = "ensure" /\ RecreateSteps[6] = "fit" /\ RecreateSteps[7] = "create"
      /\ RecreateSteps[8] = "run" /\ RecreateSteps[9] = "wait"
  BY <1>3, <1>5, <1>6
<1>8. QED
  BY <1>6, <1>7 DEF Chain, Replaces, Link

\* A step is done and calls for the steps m.
LEMMA ThenSteps ==
  ASSUME Chain(todo), NEW h, At(h), NEW m, Chain(m), ~Replaces(m),
         m = <<>> \/ \A b : Link(h, b) => Link(m[Len(m)], b),
         h = "decide" \/ \A k \in 1..Len(m) : m[k] # "create",
         Then(m)
  PROVE  /\ Chain(todo')
         /\ todo' = <<>> \/ res' = res
         /\ NeedsImage(todo') => NeedsImage(todo) \/ NeedsImage(m)
         /\ Replaces(todo') => Replaces(todo) \/ (m # <<>> /\ h \in {"fit", "remove"})
         /\ m = <<>> /\ todo' # <<>> => Link(h, Head(todo'))
         /\ m # <<>> => todo' # <<>> /\ Head(todo') = m[1]
         /\ h \in {"decide", "remove_image"} => todo' = m
<1>1. todo # <<>> /\ todo[1] = h /\ Pushed(todo, m, todo')
  BY PushShape DEF At, Idle, Then, Chain
<1>2. /\ NeedsImage(todo') => NeedsImage(todo) \/ NeedsImage(m)
      /\ Replaces(todo') => Replaces(todo) \/ (m # <<>> /\ todo[1] \in {"fit", "remove"})
      /\ m = <<>> /\ todo' # <<>> => todo'[1] = todo[2] /\ Link(todo[1], todo'[1])
      /\ m # <<>> => todo' # <<>> /\ todo'[1] = m[1]
      /\ todo[1] \in {"decide", "remove_image"} => Len(todo) = 1 /\ todo' = m
  BY <1>1, PushContents
<1>3. Chain(todo')
  BY <1>1, <1>2, PushChain
<1>4. todo' # <<>> => Head(todo') = todo'[1]
  BY <1>3 DEF Chain
<1>5. todo' = <<>> \/ res' = res
  BY DEF Then
<1>6. QED
  BY <1>1, <1>2, <1>3, <1>4, <1>5

-----------------------------------------------------------------------------
(***************************************************************************)
(* Steps of the module keep the invariant.                                 *)
(***************************************************************************)

Keeps == Chain(todo)' /\ Ready' /\ NoOrphanUnit' /\ FailedPullSparesService'

\* Steps on which no other step relies.
Minor == Steps \ {"fit", "create", "remove", "unlink", "unit", "ensure", "pull", "remove_image"}

LEMMA MinorLinks ==
  ASSUME NEW h \in Minor, NEW b, Link(h, b)
  PROVE  /\ b \notin {"remove", "run", "create", "decide", "pull", "unit", "fit"}
         /\ \A c : c \notin {"fit", "decide", "remove_image"} => Link(c, b)
<1>1. h \notin {"fit", "create", "remove", "unlink", "unit", "ensure", "pull", "remove_image"}
  BY DEF Minor
<1>2. b \notin {"remove", "run", "create", "decide", "pull", "unit", "fit"}
  BY <1>1 DEF Link
<1>3. QED
  BY <1>2 DEF Link

\* Steps that a minor step may call for.
MinorCall(m) ==
    /\ Chain(m) /\ ~Replaces(m) /\ ~NeedsImage(m)
    /\ \/ m = <<>>
       \/ /\ m[Len(m)] \notin {"fit", "decide", "remove_image"}
          /\ m[1] \notin {"remove", "run", "create", "decide", "pull", "ensure"}

\* A step that leaves container, unit file and image in place, and calls for steps
\* that stop, restart or remove the container.
LEMMA MinorStep ==
  ASSUME Inv, NEW h \in Minor, At(h),
         NEW m, MinorCall(m), m # <<>> /\ m[1] = "unit" => cont # None,
         Then(m), seen' = seen, image' = image, unit'.file = unit.file,
         cont' = None <=> cont = None
  PROVE  Keeps
<1>0. /\ Chain(m) /\ ~Replaces(m) /\ ~NeedsImage(m)
      /\ \/ m = <<>>
         \/ /\ m[Len(m)] \notin {"fit", "decide", "remove_image"}
            /\ m[1] \notin {"remove", "run", "create", "decide", "pull", "ensure"}
  BY DEF MinorCall
<1>1. m = <<>> \/ \A b : Link(h, b) => Link(m[Len(m)], b)
  BY <1>0, MinorLinks
<1>2. \A k \in 1..Len(m) : m[k] # "create"
  BY <1>0 DEF NeedsImage
<1>3. /\ Chain(todo')
      /\ todo' = <<>> \/ res' = res
      /\ NeedsImage(todo') => NeedsImage(todo) \/ NeedsImage(m)
      /\ Replaces(todo') => Replaces(todo) \/ (m # <<>> /\ h \in {"fit", "remove"})
      /\ m = <<>> /\ todo' # <<>> => Link(h, Head(todo'))
      /\ m # <<>> => todo' # <<>> /\ Head(todo') = m[1]
  BY <1>0, <1>1, <1>2, ThenSteps DEF Inv
<1>4. /\ h \notin {"fit", "create", "remove", "unlink", "unit", "ensure", "pull"}
      /\ todo # <<>> /\ Head(todo) = h
  BY DEF At, Idle, Minor
<1>5. NeedsImage(todo') => image' # None
  BY <1>0, <1>3, <1>4 DEF Inv, Ready, At, Idle
<1>6. /\ ~At("remove")' /\ ~At("run")' /\ ~At("create")' /\ ~At("decide")' /\ ~At("pull")'
      /\ At("unit")' => cont # None
  <2>1. CASE m = <<>>
    <3>1. todo' # <<>> =>
             Head(todo') \notin {"remove", "run", "create", "decide", "pull", "unit", "fit"}
      BY <1>3, <2>1, MinorLinks
    <3>2. QED
      BY <3>1 DEF At, Idle
  <2>2. CASE m # <<>>
    <3>1. Head(todo') = m[1]
      BY <1>3, <2>2
    <3>2. QED
      BY <1>0, <2>2, <3>1 DEF At, Idle
  <2>3. QED
    BY <2>1, <2>2
<1>7. At("ensure")' => NeedsImage(todo')
  <2>1. SUFFICES ASSUME At("ensure")' PROVE NeedsImage(todo')
    OBVIOUS
  <2>2. todo' # <<>> /\ todo'[1] = "ensure" /\ Len(todo') \in Nat \ {0}
    BY <1>3, <2>1, EmptySeq DEF At, Idle, Chain
  <2>3. QED
    BY <2>2 DEF NeedsImage
<1>8. Replaces(todo') => seen' = None
  BY <1>3, <1>4 DEF Inv, Ready
<1>9. todo' = <<>> \/ res' = "none"
  BY <1>3, <1>4 DEF Inv, Ready
<1>10. Ready'
  BY <1>5, <1>6, <1>7, <1>8, <1>9 DEF Ready
<1>11. res' # "no image"
  BY <1>3, <1>4 DEF Inv, Ready, Then
<1>12. QED
  BY <1>3, <1>10, <1>11 DEF Keeps, NoOrphanUnit, FailedPullSparesService, Inv

\* The operation ends here.
LEMMA LastStep ==
  ASSUME todo' = <<>>, NoOrphanUnit', FailedPullSparesService'
  PROVE  Keeps
<1>1. Chain(<<>>) /\ ~Replaces(<<>>) /\ ~NeedsImage(<<>>)
  BY DEF Chain, Replaces, NeedsImage
<1>2. QED
  BY <1>1 DEF Keeps, Ready, At, Idle


\* Short sequences with the right ends are ones that a minor step may call for.
Others == Steps \ {"create", "ensure", "fit", "decide", "remove_image"}
Firsts == Others \ {"remove", "run", "pull"}

LEMMA Ends ==
  ASSUME NEW m, Chain(m), ~Replaces(m), ~NeedsImage(m), m[1] \in Firsts, m[Len(m)] \in Others
  PROVE  MinorCall(m)
<1>1. m[Len(m)] \notin {"fit", "decide", "remove_image"}
  BY DEF Others
<1>2. m[1] \notin {"remove", "run", "create", "decide", "pull", "ensure"}
  BY DEF Others, Firsts
<1>3. QED
  BY <1>1, <1>2 DEF MinorCall

LEMMA Call1 ==
  ASSUME NEW a \in Firsts
  PROVE  MinorCall(<<a>>) /\ <<a>>[1] = a
<1>1. a \in Steps \ {"create", "ensure"}
  BY DEF Firsts, Others
<1>2. Chain(<<a>>) /\ ~Replaces(<<a>>) /\ ~NeedsImage(<<a>>)
  BY <1>1, ShortChains
<1>3. Len(<<a>>) = 1 /\ <<a>>[1] = a /\ <<a>>[1] = a
  OBVIOUS
<1>4. <<a>>[Len(<<a>>)] \in Others
  BY <1>3 DEF Firsts
<1>5. QED
  BY <1>2, <1>3, <1>4, Ends

LEMMA Call2 ==
  ASSUME NEW a \in Firsts, NEW b \in Others, Link(a, b)
  PROVE  MinorCall(<<a, b>>) /\ <<a, b>>[1] = a
<1>1. a \in Steps \ {"create", "ensure"} /\ b \in Steps \ {"create", "ensure"}
  BY DEF Firsts, Others
<1>2. Chain(<<a, b>>) /\ ~Replaces(<<a, b>>) /\ ~NeedsImage(<<a, b>>)
  BY <1>1, ShortChains
<1>3. Len(<<a, b>>) = 2 /\ <<a, b>>[1] = a /\ <<a, b>>[2] = b
  OBVIOUS
<1>4. <<a, b>>[Len(<<a, b>>)] \in Others
  BY <1>3 DEF Firsts
<1>5. QED
  BY <1>2, <1>3, <1>4, Ends

LEMMA Call3 ==
  ASSUME NEW a \in Firsts, NEW b \in Others, NEW c \in Others, Link(a, b), Link(b, c)
  PROVE  MinorCall(<<a, b, c>>) /\ <<a, b, c>>[1] = a
<1>1. a \in Steps \ {"create", "ensure"} /\ b \in Steps \ {"create", "ensure"} /\ c \in Steps \ {"create", "ensure"}
  BY DEF Firsts, Others
<1>2. Chain(<<a, b, c>>) /\ ~Replaces(<<a, b, c>>) /\ ~NeedsImage(<<a, b, c>>)
  BY <1>1, ShortChains
<1>3. Len(<<a, b, c>>) = 3 /\ <<a, b, c>>[1] = a /\ <<a, b, c>>[3] = c
  OBVIOUS
<1>4. <<a, b, c>>[Len(<<a, b, c>>)] \in Others
  BY <1>3 DEF Firsts
<1>5. QED
  BY <1>2, <1>3, <1>4, Ends

LEMMA Call4 ==
  ASSUME NEW a \in Firsts, NEW b \in Others, NEW c \in Others, NEW d \in Others, Link(a, b), Link(b, c), Link(c, d)
  PROVE  MinorCall(<<a, b, c, d>>) /\ <<a, b, c, d>>[1] = a
<1>1. a \in Steps \ {"create", "ensure"} /\ b \in Steps \ {"create", "ensure"} /\ c \in Steps \ {"create", "ensure"} /\ d \in Steps \ {"create", "ensure"}
  BY DEF Firsts, Others
<1>2. Chain(<<a, b, c, d>>) /\ ~Replaces(<<a, b, c, d>>) /\ ~NeedsImage(<<a, b, c, d>>)
  BY <1>1, ShortChains
<1>3. Len(<<a, b, c, d>>) = 4 /\ <<a, b, c, d>>[1] = a /\ <<a, b, c, d>>[4] = d
  OBVIOUS
<1>4. <<a, b, c, d>>[Len(<<a, b, c, d>>)] \in Others
  BY <1>3 DEF Firsts
<1>5. QED
  BY <1>2, <1>3, <1>4, Ends

\* What stopping, restarting and removing call for.
LEMMA Pieces ==
  /\ MinorCall(<<>>)
  /\ \A a \in {"restart", "engine_start", "engine_stop", "rc_zero", "rc_error"} :
        MinorCall(<<a>>) /\ <<a>>[1] = a
  /\ MinorCall(<<"StopUnit", "await_dead">>) /\ <<"StopUnit", "await_dead">>[1] = "StopUnit"
  /\ MinorCall(<<"engine_stop", "engine_start">>)
  /\ <<"engine_stop", "engine_start">>[1] = "engine_stop"
  /\ MinorCall(<<"unit", "StartUnit", "await_running">>)
  /\ MinorCall(<<"unit", "RestartUnit", "await_running">>)
  /\ MinorCall(<<"unit", "StopUnit", "await_dead">>)
  /\ MinorCall(<<"stop", "unlink", "remove">>) /\ <<"stop", "unlink", "remove">>[1] = "stop"
  /\ \A rc \in {"rc_zero", "rc_error"} :
        /\ MinorCall(<<"stop", "unlink", "remove", rc>>)
        /\ <<"stop", "unlink", "remove", rc>>[1] = "stop"
<1>1. /\ {"restart", "engine_start", "engine_stop", "rc_zero", "rc_error", "StopUnit", "unit",
          "stop"} \subseteq Firsts
      /\ {"await_dead", "engine_start", "StartUnit", "RestartUnit", "StopUnit", "await_running",
          "unlink", "remove", "rc_zero", "rc_error"} \subseteq Others
  BY DEF Steps, Firsts, Others
<1>2. /\ Link("StopUnit", "await_dead") /\ Link("engine_stop", "engine_start")
      /\ Link("unit", "StartUnit") /\ Link("StartUnit", "await_running")
      /\ Link("unit", "RestartUnit") /\ Link("RestartUnit", "await_running")
      /\ Link("unit", "StopUnit") /\ Link("stop", "unlink") /\ Link("unlink", "remove")
      /\ Link("remove", "rc_zero") /\ Link("remove", "rc_error")
  BY DEF Link
<1>3. MinorCall(<<>>)
  BY DEF MinorCall, Chain, Replaces, NeedsImage
<1>4. ASSUME NEW a \in {"restart", "engine_start", "engine_stop", "rc_zero", "rc_error"}
      PROVE  MinorCall(<<a>>) /\ <<a>>[1] = a
  <2>1. a \in Firsts
    BY <1>1
  <2>2. QED
    BY <2>1, Call1
<1>5. MinorCall(<<"StopUnit", "await_dead">>) /\ <<"StopUnit", "await_dead">>[1] = "StopUnit"
  BY <1>1, <1>2, Call2
<1>6. /\ MinorCall(<<"engine_stop", "engine_start">>)
      /\ <<"engine_stop", "engine_start">>[1] = "engine_stop"
  BY <1>1, <1>2, Call2
<1>7. MinorCall(<<"unit", "StartUnit", "await_running">>)
  BY <1>1, <1>2, Call3
<1>8. MinorCall(<<"unit", "RestartUnit", "await_running">>)
  BY <1>1, <1>2, Call3
<1>9. MinorCall(<<"unit", "StopUnit", "await_dead">>)
  BY <1>1, <1>2, Call3
<1>10. MinorCall(<<"stop", "unlink", "remove">>) /\ <<"stop", "unlink", "remove">>[1] = "stop"
  BY <1>1, <1>2, Call3
<1>11. ASSUME NEW rc \in {"rc_zero", "rc_error"}
       PROVE  /\ MinorCall(<<"stop", "unlink", "remove", rc>>)
              /\ <<"stop", "unlink", "remove", rc>>[1] = "stop"
  <2>1. rc \in Others /\ Link("remove", rc)
    BY <1>1, <1>2
  <2>2. QED
    BY <1>1, <1>2, <2>1, Call4
<1>12. QED
  BY <1>3, <1>4, <1>5, <1>6, <1>7, <1>8, <1>9, <1>10, <1>11

\* Concatenations that the operations write.
LEMMA Concatenations ==
  ASSUME NEW a, NEW b, NEW c, NEW d
  PROVE  /\ <<a>> \o <<b, c>> = <<a, b, c>>
         /\ <<a, b, c>> \o <<d>> = <<a, b, c, d>>
         /\ <<>> \o <<d>> = <<d>>
<1> DEFINE S == {a, b, c, d}
<1>1. /\ <<a>> \in Seq(S) /\ <<b, c>> \in Seq(S) /\ <<a, b, c>> \in Seq(S) /\ <<d>> \in Seq(S)
      /\ <<a, b, c, d>> \in Seq(S)
  OBVIOUS
<1>2. <<a>> \o <<b, c>> = <<a, b, c>>
  <2>1. Len(<<a>> \o <<b, c>>) = 3 /\ <<a>> \o <<b, c>> \in Seq(S)
    BY <1>1
  <2>2. \A i \in 1..3 : (<<a>> \o <<b, c>>)[i] = <<a, b, c>>[i]
    OBVIOUS
  <2>3. QED
    BY <1>1, <2>1, <2>2, SeqEqual
<1>3. <<a, b, c>> \o <<d>> = <<a, b, c, d>>
  <2>1. Len(<<a, b, c>> \o <<d>>) = 4 /\ <<a, b, c>> \o <<d>> \in Seq(S)
    BY <1>1
  <2>2. \A i \in 1..4 : (<<a, b, c>> \o <<d>>)[i] = <<a, b, c, d>>[i]
    OBVIOUS
  <2>3. QED
    BY <1>1, <2>1, <2>2, SeqEqual
<1>4. <<>> \o <<d>> = <<d>>
  BY <1>1, ConcatEmptySeq
<1>5. QED
  BY <1>2, <1>3, <1>4

-----------------------------------------------------------------------------
(***************************************************************************)
(* One lemma per group of actions.                                         *)
(***************************************************************************)

LEMMA Minors ==
  {"compare", "decide", "run", "wait", "rc_zero", "rc_error", "StartUnit", "StopUnit",
   "RestartUnit", "await_running", "await_dead", "engine_start", "engine_stop", "stop",
   "clear", "restart", "create_volume", "remove_volume"} \subseteq Minor
BY DEF Minor, Steps

\* A started container is a container.
LEMMA StartedIsContainer ==
  ASSUME Types, cont # None
  PROVE  Started(cont) \in Containers /\ Started(cont) # None
<1>1. cont \in Containers
  BY DEF Types
<1>2. Started(cont) \in Containers
  BY <1>1 DEF Started, Containers, Statuses, Types
<1>3. QED
  BY <1>2, ContainerAssumption

\* A container whose status changes is a container.
LEMMA StatusIsContainer ==
  ASSUME Types, cont # None, NEW x \in Statuses
  PROVE  [cont EXCEPT !.status = x] \in Containers /\ [cont EXCEPT !.status = x] # None
<1>1. cont \in Containers
  BY DEF Types
<1>2. [cont EXCEPT !.status = x] \in Containers
  BY <1>1 DEF Containers
<1>3. QED
  BY <1>2, ContainerAssumption

\* The steps that only look.
LEMMA Looking ==
  ASSUME Inv,
         compare_container \/ run_container \/ wait_container \/ return_code
           \/ stop_container \/ stop_and_remove_container \/ restart_container \/ wait_for_unit
  PROVE  Keeps /\ Types'
<1> USE Minors
<1>1. ASSUME NEW h \in Minor, NEW m, Look(h, m), MinorCall(m),
             m # <<>> /\ m[1] = "unit" => cont # None
      PROVE  Keeps /\ Types'
  BY <1>1, MinorStep DEF Look, World, Fixed, Inv, Types
<1>2. ASSUME NEW why, why # "no image", Fail(why), UNCHANGED <<Fixed, World, touched>>
      PROVE  Keeps /\ Types'
  BY <1>2, LastStep DEF Fail, World, Fixed, Inv, Types, NoOrphanUnit, FailedPullSparesService
<1>3. CASE compare_container
  BY <1>1, <1>3, Pieces DEF compare_container
<1>4. CASE run_container
  <2>1. At("run") => cont # None
    BY DEF Inv, Ready
  <2>2. QED
    <3>1. /\ At("run") /\ "run" \in Minor
          /\ UNCHANGED <<req, registry, config, World, touched, seen>>
      BY <1>4 DEF run_container, Minor, Steps
    <3>2. \/ Then(<<>>) \/ Then(<<"engine_start">>)
          \/ Then(<<"unit", "StartUnit", "await_running">>)
      BY <1>4 DEF run_container
    <3>3. ASSUME NEW m, Then(m), MinorCall(m), m # <<>> /\ m[1] = "unit" => cont # None
          PROVE  Keeps /\ Types'
      BY <3>1, <3>3, MinorStep DEF World, Inv, Types
    <3>4. QED
      BY <2>1, <3>1, <3>2, <3>3, Pieces
<1>5. CASE wait_container
  <2>1. CASE p.detach
    BY <1>1, <1>5, <2>1, Pieces DEF wait_container
  <2>2. CASE ~p.detach
    <3>1. PICK rc \in {"rc_zero", "rc_error"} :
             Look("wait", (IF p.remove_on_exit THEN <<"stop">> \o RemoveSteps ELSE <<>>) \o <<rc>>)
      BY <1>5, <2>2 DEF wait_container
    <3>2. \/ Look("wait", <<"stop", "unlink", "remove", rc>>)
          \/ Look("wait", <<rc>>)
      <4>1. <<"stop">> \o RemoveSteps = <<"stop", "unlink", "remove">>
        BY Concatenations DEF RemoveSteps
      <4>2. <<"stop", "unlink", "remove">> \o <<rc>> = <<"stop", "unlink", "remove", rc>>
        BY Concatenations
      <4>3. <<>> \o <<rc>> = <<rc>>
        BY Concatenations
      <4>4. QED
        BY <3>1, <4>1, <4>2, <4>3
    <3>3. QED
      BY <1>1, <3>2, Pieces
  <2>3. QED
    BY <2>1, <2>2
<1>6. CASE return_code
  BY <1>1, <1>2, <1>6, Pieces DEF return_code
<1>7. CASE stop_container
  BY <1>1, <1>2, <1>7, Pieces DEF stop_container, StopSteps, DockerStop, PodmanStop
<1>8. CASE stop_and_remove_container
  <2>1. <<"stop">> \o RemoveSteps = <<"stop", "unlink", "remove">>
    BY Concatenations DEF RemoveSteps
  <2>2. QED
    BY <1>1, <1>8, <2>1, Pieces DEF stop_and_remove_container
<1>9. CASE restart_container
  BY <1>1, <1>2, <1>9, Pieces DEF restart_container, DockerRestart, PodmanRestart
<1>10. CASE wait_for_unit
  <2>1. PICK h \in {"await_running", "await_dead"} : At(h)
    BY <1>10 DEF wait_for_unit
  <2>2. CASE Then(<<>>)
    BY <1>1, <1>10, <2>1, <2>2, Pieces DEF wait_for_unit, Look
  <2>3. CASE Fail("timed out")
    BY <1>2, <1>10, <2>3 DEF wait_for_unit
  <2>4. QED
    BY <1>10, <2>2, <2>3 DEF wait_for_unit
<1>11. QED
  BY <1>3, <1>4, <1>5, <1>6, <1>7, <1>8, <1>9, <1>10

\* The steps that move the unit, the container or a volume.
LEMMA Moving ==
  ASSUME Inv, Enqueue \/ engine_start \/ engine_stop \/ create_volume \/ remove_volume
  PROVE  Keeps /\ Types'
<1> USE Minors
<1>1. CASE Enqueue
  <2>1. PICK j \in {"StartUnit", "StopUnit", "RestartUnit"} :
           /\ At(j) /\ Then(<<>>)
           /\ unit' = [unit EXCEPT !.job = j, !.loaded = IF @ = None THEN unit.file ELSE @]
           /\ UNCHANGED <<Fixed, cont, image, volumes, seen, changed>>
    BY <1>1 DEF Enqueue, Jobs
  <2>2. unit' = [file |-> unit'.file, loaded |-> unit'.loaded, sub |-> unit'.sub, job |-> unit'.job]
        /\ unit'.file = unit.file
    BY <2>1 DEF Inv, Types
  <2>3. Keeps
    BY <2>1, <2>2, MinorStep, Pieces
  <2>4. QED
    BY <2>1, <2>2, <2>3 DEF Inv, Types, Fixed
<1>2. CASE engine_start
  <2>1. cont' \in Containers /\ cont' # None
    BY <1>2, StartedIsContainer DEF engine_start, Inv
  <2>2. Keeps
    BY <1>2, <2>1, MinorStep, Pieces DEF engine_start
  <2>3. QED
    BY <1>2, <2>1, <2>2 DEF engine_start, Inv, Types, Fixed
<1>3. CASE engine_stop
  <2>1. cont' \in Containers /\ cont' # None
    <3>1. cont \in Containers
      BY <1>3 DEF engine_stop, Inv, Types
    <3>2. cont' \in Containers
      BY <1>3, <3>1 DEF engine_stop, Containers, Statuses
    <3>3. QED
      BY <3>2, ContainerAssumption
  <2>2. Keeps
    BY <1>3, <2>1, MinorStep, Pieces DEF engine_stop
  <2>3. QED
    BY <1>3, <2>1, <2>2 DEF engine_stop, Inv, Types, Fixed
<1>4. CASE create_volume
  <2>1. Keeps
    BY <1>4, MinorStep, Pieces DEF create_volume
  <2>2. QED
    BY <1>4, <2>1 DEF create_volume, Inv, Types, Fixed
<1>5. CASE remove_volume
  <2>1. CASE Then(<<>>)
    <3>1. Keeps
      BY <1>5, <2>1, MinorStep, Pieces DEF remove_volume
    <3>2. QED
      BY <1>5, <3>1 DEF remove_volume, Inv, Types, Fixed
  <2>2. CASE Fail("in use")
    <3>1. Keeps
      BY <1>5, <2>2, LastStep DEF remove_volume, Fail, Inv, NoOrphanUnit, FailedPullSparesService
    <3>2. QED
      BY <1>5, <3>1 DEF remove_volume, Inv, Types, Fixed
  <2>3. QED
    BY <1>5, <2>1, <2>2 DEF remove_volume
<1>6. QED
  BY <1>1, <1>2, <1>3, <1>4, <1>5

\* What follows when a step has called for nothing.
LEMMA NextInLine ==
  ASSUME Inv, NEW h, At(h), Then(<<>>)
  PROVE  /\ Chain(todo')
         /\ todo' = <<>> \/ res' = "none"
         /\ res' # "no image"
         /\ NeedsImage(todo') => NeedsImage(todo)
         /\ Replaces(todo') => Replaces(todo)
         /\ todo' # <<>> => Link(h, Head(todo'))
         /\ At("ensure")' => NeedsImage(todo')
         /\ At("create")' => NeedsImage(todo')
<1>1. Chain(<<>>) /\ ~Replaces(<<>>) /\ ~NeedsImage(<<>>) /\ \A k \in 1..Len(<<>>) : <<>>[k] # "create"
  BY DEF Chain, Replaces, NeedsImage
<1>2. /\ Chain(todo')
      /\ todo' = <<>> \/ res' = res
      /\ NeedsImage(todo') => NeedsImage(todo) \/ NeedsImage(<<>>)
      /\ Replaces(todo') => Replaces(todo)
      /\ todo' # <<>> => Link(h, Head(todo'))
  BY <1>1, ThenSteps DEF Inv
<1>3. todo # <<>> /\ res = "none"
  BY DEF At, Idle, Inv, Ready
<1>4. ASSUME todo' # <<>>, Head(todo') \in {"ensure", "create"} PROVE NeedsImage(todo')
  <2>1. todo'[1] \in {"ensure", "create"} /\ Len(todo') \in Nat \ {0}
    BY <1>2, <1>4, EmptySeq DEF Chain
  <2>2. QED
    BY <2>1 DEF NeedsImage
<1>5. res' # "no image"
  BY <1>3 DEF Then
<1>6. QED
  BY <1>1, <1>2, <1>3, <1>4, <1>5 DEF At, Idle

\* remove_container takes the unit file away first.
LEMMA Removing ==
  ASSUME Inv, remove_unit_file \/ remove_container
  PROVE  Keeps /\ Types'
<1>1. CASE remove_unit_file
  <2>1. At("unlink") /\ Then(<<>>) /\ unit'.file = None /\ UNCHANGED <<Fixed, cont, image, seen>>
        /\ unit' = [file |-> unit'.file, loaded |-> unit'.loaded, sub |-> unit'.sub, job |-> unit'.job]
    BY <1>1 DEF remove_unit_file, Inv, Types
  <2>2. /\ ~At("run")' /\ ~At("unit")' /\ ~At("create")' /\ ~At("decide")' /\ ~At("pull")'
    BY <2>1, NextInLine DEF Link, At, Idle
  <2>3. NeedsImage(todo') => image' # None
    BY <2>1, NextInLine DEF Inv, Ready, At, Fixed
  <2>4. Ready'
    BY <2>1, <2>2, <2>3, NextInLine DEF Ready, Inv
  <2>5. QED
    BY <2>1, <2>4, NextInLine DEF Keeps, NoOrphanUnit, FailedPullSparesService, Inv, Types, Fixed
<1>2. CASE remove_container
  <2>1. At("remove") /\ Then(<<>>) /\ cont' = None /\ UNCHANGED <<Fixed, image, unit, seen>>
    BY <1>2 DEF remove_container
  <2>2. /\ ~At("run")' /\ ~At("unit")' /\ ~At("decide")' /\ ~At("pull")' /\ ~At("remove")'
    BY <2>1, NextInLine DEF Link, At, Idle
  <2>3. At("create")' => seen' = None
    <3>1. SUFFICES ASSUME At("create")' PROVE Replaces(todo)
      BY <2>1 DEF Inv, Ready
    <3>2. todo \in Seq(Steps) /\ todo # <<>> /\ todo[1] = "remove" /\ todo' = <<>> \o Tail(todo)
      BY <2>1 DEF At, Idle, Then, Inv, Chain
    <3>3. <<>> \in Seq(Steps) /\ Len(<<>>) = 0
      BY EmptySeq
    <3>4. Pushed(todo, <<>>, todo')
      BY <3>2, <3>3, PushShape
    <3>5. todo' # <<>> /\ todo'[1] = "create" /\ Len(todo') \in Nat \ {0} /\ todo' \in Seq(Steps)
      BY <3>1, <3>4, EmptySeq DEF At, Idle, Pushed
    <3>6. todo[2] = "create" /\ 2 \in 2..Len(todo)
      BY <3>3, <3>4, <3>5 DEF Pushed
    <3>7. QED
      BY <3>2, <3>6 DEF Replaces
  <2>4. NeedsImage(todo') => image' # None
    BY <2>1, NextInLine DEF Inv, Ready, At
  <2>5. Ready'
    BY <2>1, <2>2, <2>3, <2>4, NextInLine DEF Ready, Inv
  <2>6. unit.file = None
    BY <2>1 DEF Inv, Ready
  <2>7. QED
    BY <2>1, <2>5, <2>6, NextInLine DEF Keeps, NoOrphanUnit, FailedPullSparesService, Inv, Types, Fixed
<1>3. QED
  BY <1>1, <1>2

\* A step of ensure_image calls for a pull, or the image is there.
LEMMA Ensuring ==
  ASSUME Inv, ensure_image
  PROVE  Keeps /\ Types'
<1>1. At("ensure") /\ UNCHANGED <<Fixed, World, touched, seen>>
  BY DEF ensure_image, Look
<1>2. Types'
  BY <1>1 DEF Inv, Types, Fixed, World
<1>3. CASE image # None
  <2>1. Then(<<>>)
    BY <1>3 DEF ensure_image, Look
  <2>2. ~At("run")' /\ ~At("unit")' /\ ~At("decide")' /\ ~At("pull")' /\ ~At("remove")' /\ ~At("create")'
    BY <1>1, <2>1, NextInLine DEF Link, At, Idle
  <2>3. Ready'
    BY <1>1, <1>3, <2>1, <2>2, NextInLine DEF Ready, Inv, World
  <2>4. QED
    BY <1>1, <1>2, <2>1, <2>3, NextInLine
       DEF Keeps, NoOrphanUnit, FailedPullSparesService, Inv, World
<1>4. CASE image = None
  <2>1. Then(<<"pull">>)
    BY <1>4 DEF ensure_image, Look
  <2>2. /\ Chain(<<"pull">>) /\ ~Replaces(<<"pull">>) /\ ~NeedsImage(<<"pull">>)
        /\ <<"pull">>[1] = "pull" /\ Len(<<"pull">>) = 1
    <3>1. "pull" \in Steps \ {"create", "ensure"}
      BY DEF Steps
    <3>2. QED
      BY <3>1, ShortChains
  <2>3. \A k \in 1..Len(<<"pull">>) : <<"pull">>[k] # "create"
    BY <2>2
  <2>4. \A b : Link("ensure", b) => Link(<<"pull">>[Len(<<"pull">>)], b)
    BY <2>2 DEF Link
  <2>5. /\ Chain(todo')
        /\ todo' = <<>> \/ res' = res
        /\ Replaces(todo') => Replaces(todo)
        /\ todo' # <<>> /\ Head(todo') = "pull"
    BY <1>1, <2>1, <2>2, <2>3, <2>4, ThenSteps DEF Inv
  <2>6. res = "none" /\ "service" \notin touched
    BY <1>1, <1>4 DEF Inv, Ready, At, Idle
  <2>7. Ready'
    BY <1>1, <2>5, <2>6 DEF Ready, Inv, At, Idle
  <2>8. QED
    BY <1>1, <1>2, <2>5, <2>6, <2>7
       DEF Keeps, NoOrphanUnit, FailedPullSparesService, Inv, World
<1>5. QED
  BY <1>3, <1>4

\* pull_image fails, before the service was touched, or the image is there.
LEMMA Pulling ==
  ASSUME Inv, pull_image
  PROVE  Keeps /\ Types'
<1>1. At("pull") /\ UNCHANGED <<Fixed, cont, unit, volumes, seen>> /\ "service" \notin touched
  BY DEF pull_image, Inv, Ready
<1>2. CASE registry = None /\ Fail("no image") /\ UNCHANGED <<image, changed, touched>>
  <2>1. Keeps
    BY <1>1, <1>2, LastStep DEF Fail, Inv, NoOrphanUnit, FailedPullSparesService
  <2>2. QED
    BY <1>1, <1>2, <2>1 DEF Inv, Types, Fixed
<1>3. CASE registry # None /\ Then(<<>>) /\ image' = registry
  <2>1. ~At("run")' /\ ~At("unit")' /\ ~At("decide")' /\ ~At("pull")' /\ ~At("remove")' /\ ~At("create")'
    BY <1>1, <1>3, NextInLine DEF Link, At, Idle
  <2>2. Ready'
    BY <1>1, <1>3, <2>1, NextInLine DEF Ready, Inv
  <2>3. Keeps
    BY <1>1, <1>3, <2>2, NextInLine DEF Keeps, NoOrphanUnit, FailedPullSparesService, Inv
  <2>4. QED
    BY <1>1, <1>3, <2>3 DEF Inv, Types, Fixed
<1>4. QED
  BY <1>2, <1>3 DEF pull_image

\* A new operation, or the steps that recreate_or_restart_container decides on.
LEMMA Opening ==
  ASSUME Inv, Chain(todo'), ~Replaces(todo'), todo' # <<>>, res' = "none", seen' = seen \/ seen' = None,
         Head(todo') \notin {"remove", "run", "unit", "create"},
         "service" \notin touched',
         NeedsImage(todo') => Head(todo') \in {"ensure", "pull"},
         UNCHANGED <<cont, unit, image>>
  PROVE  Keeps
BY DEF Keeps, Ready, At, Idle, Inv, NoOrphanUnit, FailedPullSparesService

LEMMA Deciding ==
  ASSUME Inv, recreate_or_restart_container
  PROVE  Keeps /\ Types'
<1>1. At("decide") /\ UNCHANGED <<Fixed, World, touched, seen>>
  BY DEF recreate_or_restart_container, Look
<1>2. Types'
  BY <1>1 DEF Inv, Types, Fixed, World
<1>3. res = "none" /\ "service" \notin touched
  BY <1>1 DEF Inv, Ready, At, Idle
<1>4. ASSUME NEW m \in {StartSteps, RecreateSteps}, Then(m) PROVE Keeps
  <2>1. Chain(m) /\ ~Replaces(m) /\ Len(m) # 0 /\ m[1] = "ensure" /\ m[Len(m)] = "wait"
    <3>1. CASE m = StartSteps
      BY <3>1, Starting
    <3>2. CASE m = RecreateSteps
      BY <3>2, Recreating
    <3>3. QED
      BY <1>4, <3>1, <3>2
  <2>2. \A b : ~Link("decide", b)
    BY DEF Link
  <2>3. m # <<>>
    BY <2>1, EmptySeq
  <2>4. todo' = m /\ (todo' = <<>> \/ res' = res) /\ Head(todo') = m[1]
    BY <1>1, <1>4, <2>1, <2>2, <2>3, ThenSteps DEF Inv
  <2>5. QED
    BY <1>1, <1>3, <2>1, <2>3, <2>4, Opening DEF World
<1>5. ASSUME NEW m \in {<<>>, <<"restart">>}, Then(m) PROVE Keeps
  <2>1. MinorCall(m) /\ (m # <<>> /\ m[1] = "unit" => cont # None)
    BY <1>5, Pieces
  <2>2. QED
    BY <1>1, <1>5, <2>1, Minors, MinorStep DEF World
<1>6. QED
  BY <1>2, <1>4, <1>5 DEF recreate_or_restart_container, Look

\* Every program is a chain that begins with nothing but a look.
LEMMA Programs ==
  ASSUME NEW o \in DOMAIN Program
  PROVE  /\ Chain(Program[o]) /\ ~Replaces(Program[o]) /\ Program[o] # <<>>
         /\ Head(Program[o]) \notin {"remove", "run", "unit", "create"}
         /\ NeedsImage(Program[o]) => Head(Program[o]) \in {"ensure", "pull"}
<1>1. {"compare", "pull", "decide", "stop", "clear", "restart", "create_volume", "remove_volume",
       "remove_image", "unlink", "remove"} \subseteq Steps \ {"create", "ensure"}
  BY DEF Steps
<1>2. ASSUME NEW a \in {"compare", "pull", "decide", "stop", "clear", "restart", "create_volume",
                       "remove_volume", "remove_image"}
      PROVE  /\ Chain(<<a>>) /\ ~Replaces(<<a>>) /\ <<a>> # <<>> /\ ~NeedsImage(<<a>>)
             /\ Head(<<a>>) \notin {"remove", "run", "unit", "create"}
  <2>1. a \in Steps \ {"create", "ensure"}
    BY <1>1
  <2>2. Head(<<a>>) = a /\ <<a>> # <<>>
    OBVIOUS
  <2>3. QED
    BY <2>1, <2>2, ShortChains
<1>3. /\ Chain(<<"ensure">>) /\ ~Replaces(<<"ensure">>) /\ <<"ensure">> # <<>>
      /\ Head(<<"ensure">>) = "ensure"
  <2>1. <<"ensure">> \in Seq(Steps) /\ Len(<<"ensure">>) = 1 /\ <<"ensure">>[1] = "ensure"
    <3>1. "ensure" \in Steps
      BY DEF Steps
    <3>2. QED
      BY <3>1, Tuples
  <2>2. QED
    BY <2>1 DEF Chain, Replaces
<1>4. /\ Chain(RemoveSteps) /\ ~Replaces(RemoveSteps) /\ RemoveSteps # <<>> /\ ~NeedsImage(RemoveSteps)
      /\ Head(RemoveSteps) = "unlink"
  <2>1. Link("unlink", "remove")
    BY DEF Link
  <2>2. "unlink" \in Steps \ {"create", "ensure"} /\ "remove" \in Steps \ {"create", "ensure"}
    BY <1>1
  <2>3. /\ Chain(<<"unlink", "remove">>) /\ ~Replaces(<<"unlink", "remove">>)
        /\ ~NeedsImage(<<"unlink", "remove">>)
    BY <2>1, <2>2, ShortChains
  <2>4. RemoveSteps # <<>> /\ Head(RemoveSteps) = "unlink"
    BY DEF RemoveSteps
  <2>5. QED
    BY <2>3, <2>4 DEF RemoveSteps
<1>5. StartSteps # <<>> /\ Head(StartSteps) = "ensure"
  BY DEF StartSteps
<1>6. DOMAIN Program = {"compare_container", "ensure_image", "pull_image",
        "recreate_or_restart_container", "start_container", "stop_container", "remove_container",
        "stop_and_remove_container", "restart_container", "create_volume", "remove_volume",
        "remove_image"}
  BY DEF Program
<1>7. \/ \E a \in {"compare", "pull", "decide", "stop", "clear", "restart", "create_volume",
                 "remove_volume", "remove_image"} : Program[o] = <<a>>
      \/ Program[o] = <<"ensure">> \/ Program[o] = RemoveSteps \/ Program[o] = StartSteps
  BY <1>6 DEF Program
<1>8. QED
  BY <1>2, <1>3, <1>4, <1>5, <1>7, Starting

LEMMA Beginning ==
  ASSUME Inv, NEW c \in Calls, Begin(c[1], c[2])
  PROVE  Keeps /\ Types'
<1>1. c[1] \in DOMAIN Program /\ c[2] \in DOMAIN Requests
  BY ContainerAssumption
<1>2. Keeps
  BY <1>1, Programs, Opening DEF Begin
<1>3. QED
  BY <1>1, <1>2 DEF Begin, Inv, Types

\* The image is there when a step that is left needs it and the next one does not
\* look for it.
LEMMA ImageAtHand ==
  ASSUME Inv, NEW h \in {"fit", "create", "unit"}, At(h)
  PROVE  /\ NeedsImage(todo) => image # None
         /\ h = "create" => NeedsImage(todo)
         /\ h \in {"fit", "create"} => ~Replaces(todo)
         /\ res = "none"
<1>1. todo # <<>> /\ todo[1] = h /\ Head(todo) = h /\ Len(todo) \in Nat \ {0} /\ Chain(todo)
  BY EmptySeq DEF At, Idle, Inv, Chain
<1>2. NeedsImage(todo) => image # None
  BY <1>1 DEF Inv, Ready, At, Idle
<1>3. h = "create" => NeedsImage(todo)
  BY <1>1 DEF NeedsImage
<1>4. h \in {"fit", "create"} => ~Replaces(todo)
  BY <1>1, CreatesOnce
<1>5. res = "none"
  BY <1>1 DEF Inv, Ready
<1>6. QED
  BY <1>2, <1>3, <1>4, <1>5

\* start_container looks at the container, and has a misfit removed before it
\* creates another.
LEMMA Fitting ==
  ASSUME Inv, fit_container
  PROVE  Keeps /\ Types'
<1> DEFINE misfit == cont # None /\ Differs
<1>1. /\ At("fit") /\ UNCHANGED <<Fixed, World, changed, touched>>
      /\ seen' = IF cont = None \/ misfit THEN None ELSE cont.status
      /\ Then(IF misfit THEN <<"stop">> \o RemoveSteps ELSE <<>>)
  BY DEF fit_container
<1> HIDE DEF misfit
<1>2. Types'
  BY <1>1 DEF Inv, Types, Fixed, World
<1>3. (NeedsImage(todo) => image # None) /\ ~Replaces(todo) /\ res = "none"
  BY <1>1, ImageAtHand
<1>4. CASE misfit
  <2>1. Then(<<"stop", "unlink", "remove">>) /\ seen' = None
    <3>1. <<"stop">> \o RemoveSteps = <<"stop", "unlink", "remove">>
      BY Concatenations DEF RemoveSteps
    <3>2. QED
      BY <1>1, <1>4, <3>1
  <2> DEFINE m == <<"stop", "unlink", "remove">>
  <2>2. Len(m) = 3 /\ m[1] = "stop" /\ m[3] = "remove" /\ m # <<>>
    OBVIOUS
  <2>3. Chain(m) /\ ~Replaces(m) /\ ~NeedsImage(m)
    BY Pieces DEF MinorCall
  <2> HIDE DEF m
  <2>4. \A b : Link("fit", b) => Link("remove", b)
    BY DEF Link
  <2>5. m = <<>> \/ \A b : Link("fit", b) => Link(m[Len(m)], b)
    BY <2>2, <2>4
  <2>6. \A k \in 1..Len(m) : m[k] # "create"
    BY <2>3 DEF NeedsImage
  <2>7. Then(m)
    BY <2>1 DEF m
  <2>8. /\ Chain(todo')
        /\ todo' = <<>> \/ res' = res
        /\ NeedsImage(todo') => NeedsImage(todo) \/ NeedsImage(m)
        /\ todo' # <<>> /\ Head(todo') = "stop"
    BY <1>1, <2>2, <2>3, <2>5, <2>6, <2>7, ThenSteps DEF Inv
  <2>9. Ready'
    BY <1>1, <1>3, <2>1, <2>3, <2>8 DEF Ready, At, Idle, World
  <2>10. QED
    BY <1>1, <1>2, <1>3, <2>8, <2>9
       DEF Keeps, NoOrphanUnit, FailedPullSparesService, Inv, World
<1>5. CASE ~misfit
  <2>1. Then(<<>>) /\ (seen' = None <=> cont = None)
    <3>1. cont # None => cont.status # None
      BY ContainerAssumption DEF Inv, Types, Containers
    <3>2. QED
      BY <1>1, <1>5, <3>1
  <2>2. /\ ~At("run")' /\ ~At("unit")' /\ ~At("decide")' /\ ~At("pull")' /\ ~At("remove")'
        /\ ~At("ensure")'
    BY <1>1, <2>1, NextInLine DEF Link, At, Idle
  <2>3. Ready'
    BY <1>1, <1>3, <2>1, <2>2, NextInLine DEF Ready, World
  <2>4. QED
    BY <1>1, <1>2, <2>1, <2>3, NextInLine
       DEF Keeps, NoOrphanUnit, FailedPullSparesService, Inv, World
<1>6. QED
  BY <1>4, <1>5

\* create_container has the image, and the unit file follows the container.
LEMMA Creating ==
  ASSUME Inv, create_container
  PROVE  Keeps /\ Types'
<1>1. At("create") /\ UNCHANGED <<Fixed, image, unit>>
  BY DEF create_container
<1>2. image # None /\ ~Replaces(todo) /\ res = "none" /\ NeedsImage(todo)
  BY <1>1, ImageAtHand
<1>3. CASE seen # None /\ Then(<<>>) /\ UNCHANGED <<cont, volumes, seen, changed, touched>>
  <2>1. cont # None
    BY <1>1, <1>3 DEF Inv, Ready
  <2>2. ~At("unit")' /\ ~At("decide")' /\ ~At("pull")' /\ ~At("remove")' /\ ~At("create")'
    BY <1>1, <1>3, NextInLine DEF Link, At, Idle
  <2>3. Ready'
    BY <1>1, <1>2, <1>3, <2>1, <2>2, NextInLine DEF Ready
  <2>4. Keeps
    BY <1>1, <1>3, <2>1, <2>3, NextInLine DEF Keeps, NoOrphanUnit, FailedPullSparesService
  <2>5. QED
    BY <1>1, <1>3, <2>4 DEF Inv, Types, Fixed
<1>4. CASE /\ seen = None /\ Then(IF engine = "docker" /\ OneShot THEN <<>> ELSE <<"unit">>)
           /\ cont' = [req |-> req, image |-> image, status |-> "created", config |-> None]
  <2>1. cont' \in Containers /\ cont' # None
    <3>1. req \in DOMAIN Requests /\ image \in Images
      BY <1>2 DEF Inv, Types
    <3>2. cont' \in Containers
      BY <1>4, <3>1 DEF Containers, Statuses
    <3>3. QED
      BY <3>2, ContainerAssumption
  <2>2. Types'
    BY <1>1, <2>1 DEF Inv, Types, Fixed
  <2>3. CASE Then(<<>>)
    <3>1. ~At("unit")' /\ ~At("decide")' /\ ~At("pull")' /\ ~At("remove")' /\ ~At("create")'
      BY <1>1, <2>3, NextInLine DEF Link, At, Idle
    <3>2. Ready'
      BY <1>1, <1>2, <2>1, <2>3, <3>1, NextInLine DEF Ready
    <3>3. QED
      BY <1>1, <2>1, <2>2, <2>3, <3>2, NextInLine
         DEF Keeps, NoOrphanUnit, FailedPullSparesService
  <2>4. CASE Then(<<"unit">>)
    <3>1. "unit" \in Steps \ {"create", "ensure"}
      BY DEF Steps
    <3>2. Chain(<<"unit">>) /\ ~Replaces(<<"unit">>) /\ ~NeedsImage(<<"unit">>)
      BY <3>1, ShortChains
    <3>3. Len(<<"unit">>) = 1 /\ <<"unit">>[1] = "unit" /\ <<"unit">> # <<>>
      OBVIOUS
    <3>4. \A b : Link("create", b) => Link(<<"unit">>[Len(<<"unit">>)], b)
      BY <3>3 DEF Link
    <3>5. \A k \in 1..Len(<<"unit">>) : <<"unit">>[k] # "create"
      BY <3>3
    <3>6. /\ Chain(todo')
          /\ todo' = <<>> \/ res' = res
          /\ Replaces(todo') => Replaces(todo)
          /\ todo' # <<>> /\ Head(todo') = "unit"
      BY <1>1, <2>4, <3>2, <3>3, <3>4, <3>5, ThenSteps DEF Inv
    <3>7. Ready'
      BY <1>1, <1>2, <2>1, <3>6 DEF Ready, At, Idle
    <3>8. QED
      BY <1>1, <1>2, <2>1, <2>2, <3>6, <3>7 DEF Keeps, NoOrphanUnit, FailedPullSparesService
  <2>5. QED
    BY <1>4, <2>3, <2>4
<1>5. QED
  BY <1>3, <1>4 DEF create_container

\* The volumes come first, and nothing else moves with them.
LEMMA VolumesFirst ==
  ASSUME create_container_volumes
  PROVE  /\ At("create") /\ seen = None /\ changed' = TRUE
         /\ touched' = touched \cup {"volume"}
         /\ UNCHANGED <<engine, req, op, registry, config, quiet, trouble, todo, res, cont, image,
                       unit, seen>>
BY DEF create_container_volumes, Report, Touch, Fixed

LEMMA CreatingVolumes ==
  ASSUME Inv, create_container_volumes
  PROVE  Keeps /\ Types'
<1>1. /\ Head(todo) = "create" /\ todo # <<>> /\ res = "none"
      /\ UNCHANGED <<req, registry, config, todo, res, cont, image, unit, seen>>
  BY VolumesFirst DEF At, Idle, Inv, Ready
<1>2. /\ Chain(todo)' = Chain(todo) /\ Replaces(todo)' = Replaces(todo)
      /\ NeedsImage(todo)' = NeedsImage(todo)
  BY <1>1 DEF Chain, Replaces, NeedsImage
<1>3. Ready'
  BY <1>1, <1>2 DEF Inv, Ready, At, Idle
<1>4. QED
  BY <1>1, <1>2, <1>3 DEF Keeps, Inv, Types, NoOrphanUnit, FailedPullSparesService

\* create_unit_file comes when there is a container.
LEMMA WritingUnit ==
  ASSUME Inv, create_unit_file
  PROVE  Keeps /\ Types'
<1>1. /\ At("unit") /\ Then(<<>>) /\ UNCHANGED <<Fixed, cont, image, seen>>
      /\ unit' = [file |-> unit'.file, loaded |-> unit'.loaded, sub |-> unit'.sub, job |-> unit'.job]
  BY DEF create_unit_file, Inv, Types
<1>2. cont # None
  BY <1>1 DEF Inv, Ready
<1>3. NeedsImage(todo) => image # None
  BY <1>1, ImageAtHand
<1>4. ~At("unit")' /\ ~At("decide")' /\ ~At("pull")' /\ ~At("remove")' /\ ~At("create")'
  BY <1>1, NextInLine DEF Link, At, Idle
<1>5. Ready'
  BY <1>1, <1>2, <1>3, <1>4, NextInLine DEF Ready, Inv
<1>6. QED
  BY <1>1, <1>2, <1>5, NextInLine DEF Keeps, NoOrphanUnit, FailedPullSparesService, Inv, Types, Fixed

\* Nothing that needs the image is left when remove_image takes it away.
LEMMA RemovingImage ==
  ASSUME Inv, remove_image
  PROVE  Keeps /\ Types'
<1>1. At("remove_image") /\ UNCHANGED <<Fixed, cont, unit>> /\ image' \in {image, None}
  BY DEF remove_image
<1>2. CASE Fail("in use")
  BY <1>1, <1>2, LastStep DEF Fail, Inv, Types, Fixed, NoOrphanUnit, FailedPullSparesService
<1>3. CASE Then(<<>>)
  <2>1. todo' = <<>> \/ ~Link("remove_image", Head(todo'))
    BY DEF Link
  <2>2. todo' = <<>> /\ res' # "no image"
    BY <1>1, <1>3, <2>1, NextInLine
  <2>3. QED
    BY <1>1, <2>2, LastStep DEF Inv, Types, Fixed, NoOrphanUnit, FailedPullSparesService
<1>4. QED
  BY <1>2, <1>3 DEF remove_image

\* systemd, the container and the registry leave the module where it is, and no
\* container appears or goes.
LEMMA Elsewhere ==
  ASSUME Inv, UNCHANGED <<module, image>>, unit'.file = unit.file, cont' = None <=> cont = None
  PROVE  Keeps
<1>1. /\ Chain(todo)' = Chain(todo) /\ Replaces(todo)' = Replaces(todo)
      /\ NeedsImage(todo)' = NeedsImage(todo)
  BY DEF module, Chain, Replaces, NeedsImage
<1>2. QED
  BY <1>1 DEF module, Keeps, Ready, At, Idle, Inv, NoOrphanUnit, FailedPullSparesService

LEMMA Systemds ==
  ASSUME Inv, Systemd \/ Unload \/ StartLimitHit
  PROVE  Keeps /\ Types'
<1>1. /\ UNCHANGED <<module, image, registry, config>> /\ unit'.file = unit.file
      /\ unit' = [file |-> unit'.file, loaded |-> unit'.loaded, sub |-> unit'.sub, job |-> unit'.job]
  BY DEF Inv, Types, Systemd, Unload, StartLimitHit, StopJob, StartJob, RestartJob, ExecStarts,
         ExecEnds, Ended, AutoRestart, Outside
<1>2. \/ cont' = cont
      \/ cont # None /\ cont' = Started(cont)
      \/ cont # None /\ cont' = [cont EXCEPT !.status = "exited"]
  BY DEF Systemd, Unload, StartLimitHit, StopJob, StartJob, RestartJob, ExecStarts, ExecEnds,
         AutoRestart, Up
<1>3. cont' = cont \/ (cont # None /\ cont' # None /\ cont' \in Containers)
  <2>1. "exited" \in Statuses /\ Types
    BY DEF Statuses, Inv
  <2>2. QED
    BY <1>2, <2>1, StartedIsContainer, StatusIsContainer
<1>4. Keeps
  BY <1>1, <1>3, Elsewhere
<1>5. QED
  BY <1>1, <1>3, <1>4 DEF Inv, Types, module

\* What goes wrong or changes outside.
LEMMA Troubles ==
  ASSUME Inv, ContainerExits \/ ImagePublished \/ RegistryFails \/ ConfigChanges \/ CallFails
  PROVE  Keeps /\ Types'
<1>1. CASE ContainerExits
  <2>1. cont # None /\ "exited" \in Statuses /\ Types
    BY <1>1 DEF ContainerExits, Up, Statuses, Inv
  <2>2. cont' \in Containers /\ cont' # None
    BY <1>1, <2>1, StatusIsContainer DEF ContainerExits
  <2>3. UNCHANGED <<module, image, unit, registry, config>>
    BY <1>1 DEF ContainerExits, Outside
  <2>4. Keeps
    BY <2>1, <2>2, <2>3, Elsewhere
  <2>5. QED
    BY <2>2, <2>3, <2>4 DEF Inv, Types, module
<1>2. CASE ImagePublished
  <2>1. Keeps
    BY <1>2, Elsewhere DEF ImagePublished
  <2>2. QED
    BY <1>2, <2>1 DEF ImagePublished, Inv, Types, module
<1>3. CASE RegistryFails
  <2>1. Keeps
    BY <1>3, Elsewhere DEF RegistryFails
  <2>2. QED
    BY <1>3, <2>1 DEF RegistryFails, Inv, Types, module
<1>4. CASE ConfigChanges
  <2>1. Keeps
    BY <1>4, Elsewhere DEF ConfigChanges
  <2>2. QED
    BY <1>4, <2>1 DEF ConfigChanges, Inv, Types, module
<1>5. CASE CallFails
  <2>1. Keeps
    BY <1>5, LastStep DEF CallFails, Fail, Inv, NoOrphanUnit, FailedPullSparesService
  <2>2. QED
    BY <1>5, <2>1 DEF CallFails, Inv, Types
<1>6. QED
  BY <1>1, <1>2, <1>3, <1>4, <1>5

-----------------------------------------------------------------------------
(***************************************************************************)
(* The invariant, and what it is for.                                      *)
(***************************************************************************)

\* No operation is under way and the host is empty.
LEMMA InitInv == Init => Inv
<1> SUFFICES ASSUME Init PROVE Inv
  OBVIOUS
<1>1. todo = <<>> /\ Chain(<<>>) /\ ~Replaces(<<>>) /\ ~NeedsImage(<<>>)
  BY DEF Init, Chain, Replaces, NeedsImage
<1>2. Types
  BY ContainerAssumption DEF Init, Types
<1>3. Ready
  BY <1>1 DEF Ready, At, Idle
<1>4. QED
  BY <1>1, <1>2, <1>3 DEF Init, Inv, NoOrphanUnit, FailedPullSparesService

\* Every step of kolla_container, of systemd and of the outside keeps it.
LEMMA InvStep == Inv /\ [Next]_vars => Inv'
<1> SUFFICES ASSUME Inv, [Next]_vars PROVE Keeps /\ Types'
  BY DEF Keeps, Inv
<1>1. CASE \E c \in Calls : Begin(c[1], c[2])
  BY <1>1, Beginning
<1>2. CASE ModuleStep
  BY <1>2, Looking, Moving, Removing, Ensuring, Pulling, Deciding, Fitting, Creating, CreatingVolumes,
     WritingUnit, RemovingImage DEF ModuleStep
<1>3. CASE Systemd \/ Unload \/ StartLimitHit
  BY <1>3, Systemds
<1>4. CASE ContainerExits \/ ImagePublished \/ RegistryFails \/ ConfigChanges \/ CallFails
  BY <1>4, Troubles
<1>5. CASE UNCHANGED vars
  <2>1. Keeps
    BY <1>5, Elsewhere DEF vars
  <2>2. QED
    BY <1>5, <2>1 DEF vars, module, Inv, Types
<1>6. QED
  BY <1>1, <1>2, <1>3, <1>4, <1>5 DEF Next

\* Whatever fails between two steps of kolla_container, a unit file is never left
\* without a container to start: remove_container deletes the file first, and
\* create_container, which writes it last, has a container by then.
THEOREM NoOrphans == Spec => []NoOrphanUnit
<1>1. Inv => NoOrphanUnit
  BY DEF Inv
<1>2. QED
  BY <1>1, InitInv, InvStep, PTL DEF Spec

\* An operation that fails because the image cannot be pulled has not touched the
\* service: start_container and recreate_or_restart_container look for the image
\* first, and find it there whenever they look again.
THEOREM FailedPullIsHarmless == Spec => []FailedPullSparesService
<1>1. Inv => FailedPullSparesService
  BY DEF Inv
<1>2. QED
  BY <1>1, InitInv, InvStep, PTL DEF Spec

-----------------------------------------------------------------------------
(***************************************************************************)
(* Where the steps of start_container stand, counted from the end, and      *)
(* which steps are left.                                                   *)
(***************************************************************************)

Core == {"fit", "create", "run", "wait"}

Left(s) == {s[k] : k \in 1..Len(s)}

\* The second half of start_container is the end of every operation that has it,
\* and a job of systemd is asked for once the unit file is written.
Course(s) ==
    /\ \A k \in 1..Len(s) :
          /\ s[k] = "fit" => k = Len(s) - 3 /\ s[k + 1] = "create"
          /\ s[k] = "create" => k = Len(s) - 2 /\ s[k + 1] = "run"
          /\ s[k] = "run" => k = Len(s) - 1 /\ s[k + 1] = "wait"
          /\ s[k] = "wait" => k = Len(s)
    /\ \A k \in 2..Len(s) : s[k] \in Jobs => s[k - 1] = "unit"

\* Steps that a step may call for anywhere.
Calm(m) ==
    /\ m \in Seq(Steps) /\ Left(m) \cap Core = {}
    /\ \A k \in 2..Len(m) : m[k] \in Jobs => m[k - 1] = "unit"

LEMMA PushCourse ==
  ASSUME NEW s \in Seq(Steps), s # <<>>, Course(s), NEW m, Calm(m), s[1] = "unit" => m = <<>>,
         NEW t, Pushed(s, m, t)
  PROVE  Course(t)
<1>1. /\ t \in Seq(Steps) /\ Len(s) \in Nat \ {0} /\ Len(m) \in Nat
      /\ Len(t) = Len(m) + Len(s) - 1
      /\ \A i \in 1..Len(m) : t[i] = m[i]
      /\ \A i \in (Len(m) + 1)..Len(t) : t[i] = s[i - Len(m) + 1]
  BY DEF Pushed
<1>2. ASSUME NEW k \in 1..Len(t), t[k] \in Core
      PROVE  /\ k \in (Len(m) + 1)..Len(t) /\ k - Len(m) + 1 \in 1..Len(s)
             /\ t[k] = s[k - Len(m) + 1]
             /\ k + 1 <= Len(t) => t[k + 1] = s[k - Len(m) + 2]
  <2>1. k \notin 1..Len(m)
    BY <1>1, <1>2 DEF Calm, Left
  <2>2. k \in (Len(m) + 1)..Len(t)
    BY <1>1, <2>1
  <2>3. k + 1 <= Len(t) => k + 1 \in (Len(m) + 1)..Len(t) /\ (k + 1) - Len(m) + 1 = k - Len(m) + 2
    BY <1>1, <2>2
  <2>4. QED
    BY <1>1, <2>2, <2>3
<1>3. ASSUME NEW k \in 1..Len(t)
      PROVE  /\ t[k] = "fit" => k = Len(t) - 3 /\ t[k + 1] = "create"
             /\ t[k] = "create" => k = Len(t) - 2 /\ t[k + 1] = "run"
             /\ t[k] = "run" => k = Len(t) - 1 /\ t[k + 1] = "wait"
             /\ t[k] = "wait" => k = Len(t)
  <2> SUFFICES ASSUME t[k] \in Core
               PROVE  /\ t[k] = "fit" => k = Len(t) - 3 /\ t[k + 1] = "create"
                      /\ t[k] = "create" => k = Len(t) - 2 /\ t[k + 1] = "run"
                      /\ t[k] = "run" => k = Len(t) - 1 /\ t[k + 1] = "wait"
                      /\ t[k] = "wait" => k = Len(t)
    BY DEF Core
  <2> DEFINE j == k - Len(m) + 1
  <2>1. j \in 1..Len(s) /\ t[k] = s[j] /\ (k + 1 <= Len(t) => t[k + 1] = s[j + 1])
        /\ j - Len(s) = k - Len(t)
    BY <1>1, <1>2
  <2>2. /\ s[j] = "fit" => j = Len(s) - 3 /\ s[j + 1] = "create"
        /\ s[j] = "create" => j = Len(s) - 2 /\ s[j + 1] = "run"
        /\ s[j] = "run" => j = Len(s) - 1 /\ s[j + 1] = "wait"
        /\ s[j] = "wait" => j = Len(s)
    BY <2>1 DEF Course
  <2> HIDE DEF j
  <2>3. j \in Int /\ k \in Int /\ Len(t) \in Int /\ Len(s) \in Int
    BY <1>1, <2>1
  <2>4. QED
    BY <2>1, <2>2, <2>3
<1>4. ASSUME NEW k \in 2..Len(t), t[k] \in Jobs PROVE t[k - 1] = "unit"
  <2>1. CASE k <= Len(m)
    <3>1. k \in 2..Len(m) /\ t[k] = m[k] /\ t[k - 1] = m[k - 1]
      BY <1>1, <2>1
    <3>2. QED
      BY <1>4, <3>1 DEF Calm
  <2>2. CASE k = Len(m) + 1
    <3>1. m # <<>> /\ t[k] = s[2] /\ 2 \in 2..Len(s)
      BY <1>1, <1>4, <2>2, EmptySeq
    <3>2. s[2] \in Jobs => s[2 - 1] = "unit"
      BY <3>1 DEF Course
    <3>3. QED
      BY <1>4, <3>1, <3>2
  <2>3. CASE k > Len(m) + 1
    <3> DEFINE j == k - Len(m) + 1
    <3>1. j \in 2..Len(s) /\ t[k] = s[j] /\ t[k - 1] = s[j - 1]
      <4>1. k - 1 \in (Len(m) + 1)..Len(t) /\ k \in (Len(m) + 1)..Len(t)
            /\ (k - 1) - Len(m) + 1 = j - 1 /\ j \in 2..Len(s)
        BY <1>1, <1>4, <2>3
      <4>2. QED
        BY <4>1, <1>1
    <3>2. QED
      BY <1>4, <3>1 DEF Course
  <2>4. QED
    BY <1>1, <2>1, <2>2, <2>3
<1>5. QED
  BY <1>3, <1>4 DEF Course

\* What is left is what was left or has been called for; a step of Core that is
\* done is not left.
LEMMA PushLeft ==
  ASSUME NEW s \in Seq(Steps), s # <<>>, Course(s), NEW m \in Seq(Steps), Left(m) \cap Core = {},
         NEW t, Pushed(s, m, t)
  PROVE  /\ Left(t) \subseteq Left(s) \cup Left(m) /\ Left(m) \subseteq Left(t)
         /\ s[1] \in Left(s) /\ Left(s) \ {s[1]} \subseteq Left(t)
         /\ s[1] \in Core => s[1] \notin Left(t)
         /\ m = <<>> => Left(t) \subseteq Left(s)
<1>1. /\ t \in Seq(Steps) /\ Len(s) \in Nat \ {0} /\ Len(m) \in Nat
      /\ Len(t) = Len(m) + Len(s) - 1
      /\ \A i \in 1..Len(m) : t[i] = m[i]
      /\ \A i \in (Len(m) + 1)..Len(t) : t[i] = s[i - Len(m) + 1]
  BY DEF Pushed
<1>2. ASSUME NEW k \in 1..Len(t)
      PROVE  \/ k \in 1..Len(m) /\ t[k] = m[k]
             \/ k - Len(m) + 1 \in 2..Len(s) /\ t[k] = s[k - Len(m) + 1]
  <2>1. k \in 1..Len(m) \/ (k \in (Len(m) + 1)..Len(t) /\ k - Len(m) + 1 \in 2..Len(s))
    BY <1>1
  <2>2. QED
    BY <1>1, <2>1
<1>3. Left(t) \subseteq Left(s) \cup Left(m)
  <2>1. SUFFICES ASSUME NEW k \in 1..Len(t) PROVE t[k] \in Left(s) \cup Left(m)
    BY DEF Left
  <2>2. CASE k \in 1..Len(m) /\ t[k] = m[k]
    BY <2>2 DEF Left
  <2>3. CASE k - Len(m) + 1 \in 2..Len(s) /\ t[k] = s[k - Len(m) + 1]
    <3>1. k - Len(m) + 1 \in 1..Len(s)
      BY <1>1, <2>3
    <3>2. QED
      BY <2>3, <3>1 DEF Left
  <2>4. QED
    BY <1>2, <2>2, <2>3
<1>4. Left(m) \subseteq Left(t)
  <2>1. \A k \in 1..Len(m) : k \in 1..Len(t)
    BY <1>1
  <2>2. QED
    BY <1>1, <2>1 DEF Left
<1>5. s[1] \in Left(s)
  <2>1. 1 \in 1..Len(s)
    BY <1>1
  <2>2. QED
    BY <2>1 DEF Left
<1>6. Left(s) \ {s[1]} \subseteq Left(t)
  <2>1. SUFFICES ASSUME NEW k \in 1..Len(s), s[k] # s[1] PROVE s[k] \in Left(t)
    BY DEF Left
  <2>2. k # 1
    BY <2>1
  <2>3. k + Len(m) - 1 \in (Len(m) + 1)..Len(t) /\ k + Len(m) - 1 \in 1..Len(t)
        /\ (k + Len(m) - 1) - Len(m) + 1 = k
    BY <1>1, <2>2
  <2>4. t[k + Len(m) - 1] = s[k]
    BY <1>1, <2>3
  <2>5. QED
    BY <2>3, <2>4 DEF Left
<1>7. ASSUME s[1] \in Core, s[1] \in Left(t) PROVE FALSE
  <2>1. PICK k \in 1..Len(t) : t[k] = s[1]
    BY <1>7 DEF Left
  <2>2. ~(k \in 1..Len(m) /\ t[k] = m[k])
    BY <1>7, <2>1 DEF Left
  <2>3. PICK j \in 2..Len(s) : s[j] = s[1]
    BY <1>2, <2>1, <2>2
  <2>4. 1 \in 1..Len(s) /\ j \in 1..Len(s) /\ j # 1
    BY <1>1
  <2>5. CASE s[1] = "fit"
    BY <2>3, <2>4, <2>5 DEF Course
  <2>6. CASE s[1] = "create"
    BY <2>3, <2>4, <2>6 DEF Course
  <2>7. CASE s[1] = "run"
    BY <2>3, <2>4, <2>7 DEF Course
  <2>8. CASE s[1] = "wait"
    BY <2>3, <2>4, <2>8 DEF Course
  <2>9. QED
    BY <1>7, <2>5, <2>6, <2>7, <2>8 DEF Core
<1>8. m = <<>> => Left(t) \subseteq Left(s)
  <2>1. m = <<>> => Left(m) = {}
    BY DEF Left
  <2>2. QED
    BY <1>3, <2>1
<1>9. QED
  BY <1>3, <1>4, <1>5, <1>6, <1>7, <1>8

\* What is left from a step of Core on.
LEMMA CoreLeft ==
  ASSUME NEW s \in Seq(Steps), Course(s)
  PROVE  /\ "fit" \in Left(s) => "create" \in Left(s)
         /\ "create" \in Left(s) => "run" \in Left(s)
         /\ "run" \in Left(s) => "wait" \in Left(s)
         /\ s # <<>> /\ s[1] = "fit" => Left(s) = {"fit", "create", "run", "wait"}
         /\ s # <<>> /\ s[1] = "create" => Left(s) = {"create", "run", "wait"}
         /\ s # <<>> /\ s[1] = "run" => Left(s) = {"run", "wait"}
         /\ s # <<>> /\ s[1] = "wait" => Left(s) = {"wait"}
<1>1. Len(s) \in Nat /\ (s # <<>> => Len(s) \in Nat \ {0})
  BY EmptySeq, LenProperties
<1>2. /\ "fit" \in Left(s) => "create" \in Left(s)
      /\ "create" \in Left(s) => "run" \in Left(s)
      /\ "run" \in Left(s) => "wait" \in Left(s)
  <2>1. ASSUME NEW k \in 1..Len(s), s[k] \in {"fit", "create", "run"} PROVE k + 1 \in 1..Len(s)
    BY <1>1, <2>1 DEF Course
  <2>2. ASSUME "fit" \in Left(s) PROVE "create" \in Left(s)
    BY <2>1, <2>2 DEF Course, Left
  <2>3. ASSUME "create" \in Left(s) PROVE "run" \in Left(s)
    BY <2>1, <2>3 DEF Course, Left
  <2>4. ASSUME "run" \in Left(s) PROVE "wait" \in Left(s)
    BY <2>1, <2>4 DEF Course, Left
  <2>5. QED
    BY <2>2, <2>3, <2>4
<1>3. ASSUME s # <<>>, s[1] = "wait" PROVE Left(s) = {"wait"}
  <2>1. Len(s) = 1
    <3>1. 1 \in 1..Len(s)
      BY <1>1, <1>3
    <3>2. QED
      BY <1>3, <3>1 DEF Course
  <2>2. QED
    BY <1>3, <2>1 DEF Left
<1>4. ASSUME s # <<>>, s[1] = "run" PROVE Left(s) = {"run", "wait"}
  <2>1. Len(s) = 2 /\ s[2] = "wait"
    <3>1. 1 \in 1..Len(s) /\ 1 + 1 = 2
      BY <1>1, <1>4
    <3>2. 1 = Len(s) - 1 /\ s[1 + 1] = "wait"
      BY <1>4, <3>1 DEF Course
    <3>3. QED
      BY <1>1, <3>1, <3>2
  <2>2. 1..Len(s) = {1, 2}
    BY <2>1
  <2>3. QED
    BY <1>4, <2>1, <2>2 DEF Left
<1>5. ASSUME s # <<>>, s[1] = "create" PROVE Left(s) = {"create", "run", "wait"}
  <2>1. Len(s) = 3 /\ s[2] = "run"
    <3>1. 1 \in 1..Len(s) /\ 1 + 1 = 2
      BY <1>1, <1>5
    <3>2. 1 = Len(s) - 2 /\ s[1 + 1] = "run"
      BY <1>5, <3>1 DEF Course
    <3>3. QED
      BY <1>1, <3>1, <3>2
  <2>2. s[3] = "wait"
    <3>1. 2 \in 1..Len(s) /\ 2 + 1 = 3
      BY <2>1
    <3>2. s[2 + 1] = "wait"
      BY <2>1, <3>1 DEF Course
    <3>3. QED
      BY <3>1, <3>2
  <2>3. 1..Len(s) = {1, 2, 3}
    BY <2>1
  <2>4. QED
    BY <1>5, <2>1, <2>2, <2>3 DEF Left
<1>6. ASSUME s # <<>>, s[1] = "fit" PROVE Left(s) = {"fit", "create", "run", "wait"}
  <2>1. Len(s) = 4 /\ s[2] = "create"
    <3>1. 1 \in 1..Len(s) /\ 1 + 1 = 2
      BY <1>1, <1>6
    <3>2. 1 = Len(s) - 3 /\ s[1 + 1] = "create"
      BY <1>6, <3>1 DEF Course
    <3>3. QED
      BY <1>1, <3>1, <3>2
  <2>2. s[3] = "run"
    <3>1. 2 \in 1..Len(s) /\ 2 + 1 = 3
      BY <2>1
    <3>2. s[2 + 1] = "run"
      BY <2>1, <3>1 DEF Course
    <3>3. QED
      BY <3>1, <3>2
  <2>3. s[4] = "wait"
    <3>1. 3 \in 1..Len(s) /\ 3 + 1 = 4
      BY <2>1
    <3>2. s[3 + 1] = "wait"
      BY <2>2, <3>1 DEF Course
    <3>3. QED
      BY <3>1, <3>2
  <2>4. 1..Len(s) = {1, 2, 3, 4}
    BY <2>1
  <2>5. QED
    BY <1>6, <2>1, <2>2, <2>3, <2>4 DEF Left
<1>7. QED
  BY <1>2, <1>3, <1>4, <1>5, <1>6
\* The steps that operations call for, and which steps these are.
LEMMA CalmCalls ==
  /\ Calm(<<>>) /\ Left(<<>>) = {}
  /\ \A a \in Steps \ Core : Calm(<<a>>) /\ Left(<<a>>) = {a} /\ <<a>>[1] = a
  /\ \A a, b \in Steps \ Core : b \notin Jobs =>
        Calm(<<a, b>>) /\ Left(<<a, b>>) = {a, b} /\ <<a, b>>[1] = a
  /\ \A a, b, c \in Steps \ Core : c \notin Jobs /\ (b \in Jobs => a = "unit") =>
        Calm(<<a, b, c>>) /\ Left(<<a, b, c>>) = {a, b, c} /\ <<a, b, c>>[1] = a
  /\ \A a, b, c, d \in Steps \ Core : b \notin Jobs /\ c \notin Jobs /\ d \notin Jobs =>
        Calm(<<a, b, c, d>>) /\ Left(<<a, b, c, d>>) = {a, b, c, d} /\ <<a, b, c, d>>[1] = a
<1>1. Calm(<<>>) /\ Left(<<>>) = {}
  BY DEF Calm, Left
<1>2. ASSUME NEW a \in Steps \ Core
      PROVE  Calm(<<a>>) /\ Left(<<a>>) = {a} /\ <<a>>[1] = a
  <2>1. ASSUME NEW s, s = <<a>> PROVE Calm(s) /\ Left(s) = {a} /\ s[1] = a
    <3>1. s \in Seq(Steps) /\ Len(s) = 1 /\ s[1] = a
      BY <2>1, Tuples
    <3>2. Left(s) = {a}
      BY <3>1 DEF Left
    <3>3. QED
      BY <3>1, <3>2 DEF Calm
  <2>2. QED
    BY <2>1
<1>3. ASSUME NEW a \in Steps \ Core, NEW b \in Steps \ Core, b \notin Jobs
      PROVE  Calm(<<a, b>>) /\ Left(<<a, b>>) = {a, b} /\ <<a, b>>[1] = a
  <2>1. ASSUME NEW s, s = <<a, b>> PROVE Calm(s) /\ Left(s) = {a, b} /\ s[1] = a
    <3>1. s \in Seq(Steps) /\ Len(s) = 2 /\ s[1] = a /\ s[2] = b
      BY <2>1, Tuples
    <3>2. 1..Len(s) = {1, 2}
      BY <3>1
    <3>3. Left(s) = {a, b}
      BY <3>1, <3>2 DEF Left
    <3>4. \A k \in 2..Len(s) : s[k] \notin Jobs
      BY <1>3, <3>1
    <3>5. QED
      BY <3>1, <3>3, <3>4 DEF Calm
  <2>2. QED
    BY <2>1
<1>4. ASSUME NEW a \in Steps \ Core, NEW b \in Steps \ Core, NEW c \in Steps \ Core,
             c \notin Jobs, b \in Jobs => a = "unit"
      PROVE  Calm(<<a, b, c>>) /\ Left(<<a, b, c>>) = {a, b, c} /\ <<a, b, c>>[1] = a
  <2>1. ASSUME NEW s, s = <<a, b, c>> PROVE Calm(s) /\ Left(s) = {a, b, c} /\ s[1] = a
    <3>1. s \in Seq(Steps) /\ Len(s) = 3 /\ s[1] = a /\ s[2] = b /\ s[3] = c
      BY <2>1, Tuples
    <3>2. 1..Len(s) = {1, 2, 3} /\ 2..Len(s) = {2, 3}
      BY <3>1
    <3>3. Left(s) = {a, b, c}
      BY <3>1, <3>2 DEF Left
    <3>4. \A k \in 2..Len(s) : s[k] \in Jobs => s[k - 1] = "unit"
      BY <1>4, <3>1, <3>2
    <3>5. QED
      BY <3>1, <3>3, <3>4 DEF Calm
  <2>2. QED
    BY <2>1
<1>5. ASSUME NEW a \in Steps \ Core, NEW b \in Steps \ Core, NEW c \in Steps \ Core,
             NEW d \in Steps \ Core, b \notin Jobs, c \notin Jobs, d \notin Jobs
      PROVE  /\ Calm(<<a, b, c, d>>) /\ Left(<<a, b, c, d>>) = {a, b, c, d}
             /\ <<a, b, c, d>>[1] = a
  <2>1. ASSUME NEW s, s = <<a, b, c, d>> PROVE Calm(s) /\ Left(s) = {a, b, c, d} /\ s[1] = a
    <3>1. s \in Seq(Steps) /\ Len(s) = 4 /\ s[1] = a /\ s[2] = b /\ s[3] = c /\ s[4] = d
      BY <2>1, Tuples
    <3>2. 1..Len(s) = {1, 2, 3, 4} /\ 2..Len(s) = {2, 3, 4}
      BY <3>1
    <3>3. Left(s) = {a, b, c, d}
      BY <3>1, <3>2 DEF Left
    <3>4. \A k \in 2..Len(s) : s[k] \notin Jobs
      BY <1>5, <3>1, <3>2
    <3>5. QED
      BY <3>1, <3>3, <3>4 DEF Calm
  <2>2. QED
    BY <2>1
<1>6. QED
  BY <1>1, <1>2, <1>3, <1>4, <1>5

LEMMA StartingCourse ==
  /\ StartSteps \in Seq(Steps) /\ Course(StartSteps)
  /\ Left(StartSteps) = {"ensure", "fit", "create", "run", "wait"}
<1>1. {"ensure", "fit", "create", "run", "wait"} \subseteq Steps
  BY DEF Steps
<1>2. /\ StartSteps \in Seq(Steps) /\ Len(StartSteps) = 5
      /\ StartSteps[1] = "ensure" /\ StartSteps[2] = "fit" /\ StartSteps[3] = "create"
      /\ StartSteps[4] = "run" /\ StartSteps[5] = "wait"
  BY <1>1, Tuples DEF StartSteps
<1>3. 1..Len(StartSteps) = {1, 2, 3, 4, 5}
  BY <1>2
<1>4. Left(StartSteps) = {"ensure", "fit", "create", "run", "wait"}
  BY <1>2, <1>3 DEF Left
<1>5. \A k \in 2..Len(StartSteps) : StartSteps[k] \notin Jobs
  BY <1>2 DEF Jobs
<1>6. Course(StartSteps)
  BY <1>2, <1>3, <1>5 DEF Course
<1>7. QED
  BY <1>2, <1>4, <1>6

LEMMA RecreatingCourse ==
  /\ RecreateSteps \in Seq(Steps) /\ Course(RecreateSteps)
  /\ Left(RecreateSteps) = {"ensure", "stop", "unlink", "remove", "fit", "create", "run", "wait"}
<1> DEFINE v == <<"ensure", "stop", "unlink", "remove">>
<1>1. RecreateSteps = v \o StartSteps
  <2>1. <<"ensure", "stop">> \o <<"unlink", "remove">> = v
    <3>1. /\ <<"ensure", "stop">> \in Seq(Steps) /\ <<"unlink", "remove">> \in Seq(Steps)
          /\ v \in Seq(Steps) /\ Len(v) = 4
          /\ Len(<<"ensure", "stop">>) = 2 /\ Len(<<"unlink", "remove">>) = 2
      BY DEF Steps
    <3>4. /\ <<"ensure", "stop">> \o <<"unlink", "remove">> \in Seq(Steps)
          /\ Len(<<"ensure", "stop">> \o <<"unlink", "remove">>) = 4
      BY <3>1, ConcatProperties
    <3>2. \A i \in 1..4 : (<<"ensure", "stop">> \o <<"unlink", "remove">>)[i] = v[i]
      OBVIOUS
    <3>3. QED
      BY <3>1, <3>2, <3>4, SeqEqual
  <2>2. RecreateSteps = (<<"ensure", "stop">> \o RemoveSteps) \o StartSteps
    <3>1. <<"ensure", "stop">> \in Seq(Steps) /\ RemoveSteps \in Seq(Steps)
      BY DEF Steps, RemoveSteps
    <3>2. QED
      BY <3>1, StartingCourse, ConcatAssociative DEF RecreateSteps
  <2>3. QED
    BY <2>1, <2>2 DEF RemoveSteps
<1>2. /\ v \in Seq(Steps) /\ Len(v) = 4
      /\ v[1] = "ensure" /\ v[2] = "stop" /\ v[3] = "unlink" /\ v[4] = "remove"
  BY DEF Steps
<1> HIDE DEF v
<1>3. /\ StartSteps \in Seq(Steps) /\ Len(StartSteps) = 5
      /\ StartSteps[1] = "ensure" /\ StartSteps[2] = "fit" /\ StartSteps[3] = "create"
      /\ StartSteps[4] = "run" /\ StartSteps[5] = "wait"
  BY StartingCourse DEF StartSteps
<1>4. /\ RecreateSteps \in Seq(Steps) /\ Len(RecreateSteps) = 9
      /\ \A i \in 1..9 : RecreateSteps[i] = IF i <= 4 THEN v[i] ELSE StartSteps[i - 4]
  <2>1. /\ v \o StartSteps \in Seq(Steps) /\ Len(v \o StartSteps) = Len(v) + Len(StartSteps)
        /\ \A i \in 1..(Len(v) + Len(StartSteps)) :
              (v \o StartSteps)[i] = IF i <= Len(v) THEN v[i] ELSE StartSteps[i - Len(v)]
    BY <1>2, <1>3, ConcatProperties
  <2>2. Len(v) = 4 /\ Len(v) + Len(StartSteps) = 9
    BY <1>2, <1>3
  <2>3. QED
    BY <1>1, <2>1, <2>2
<1>5. /\ RecreateSteps[1] = "ensure" /\ RecreateSteps[2] = "stop"
      /\ RecreateSteps[3] = "unlink" /\ RecreateSteps[4] = "remove"
      /\ RecreateSteps[5] = "ensure" /\ RecreateSteps[6] = "fit" /\ RecreateSteps[7] = "create"
      /\ RecreateSteps[8] = "run" /\ RecreateSteps[9] = "wait"
  BY <1>2, <1>3, <1>4
<1>6. 1..Len(RecreateSteps) = {1, 2, 3, 4, 5, 6, 7, 8, 9}
  BY <1>4
<1>7. Left(RecreateSteps) = {"ensure", "stop", "unlink", "remove", "fit", "create", "run", "wait"}
  BY <1>5, <1>6 DEF Left
<1>8. \A k \in 2..Len(RecreateSteps) : RecreateSteps[k] \notin Jobs
  BY <1>4, <1>5, <1>6 DEF Jobs
<1>9. \A k \in 1..Len(RecreateSteps) :
          /\ RecreateSteps[k] = "fit" => k = 9 - 3 /\ RecreateSteps[k + 1] = "create"
          /\ RecreateSteps[k] = "create" => k = 9 - 2 /\ RecreateSteps[k + 1] = "run"
          /\ RecreateSteps[k] = "run" => k = 9 - 1 /\ RecreateSteps[k + 1] = "wait"
          /\ RecreateSteps[k] = "wait" => k = 9
  BY <1>5, <1>6
<1>10. QED
  BY <1>4, <1>7, <1>8, <1>9 DEF Course

\* A step is done and calls for the steps m.
LEMMA StepLeft ==
  ASSUME Chain(todo), Course(todo), NEW h, At(h), NEW m, Calm(m), h = "unit" => m = <<>>, Then(m)
  PROVE  /\ Course(todo') /\ h \in Left(todo)
         /\ Left(todo') \subseteq Left(todo) \cup Left(m) /\ Left(m) \subseteq Left(todo')
         /\ Left(todo) \ {h} \subseteq Left(todo')
         /\ h \in Core => h \notin Left(todo')
         /\ todo' # <<>> => Head(todo') \in Left(todo')
         /\ m = <<>> /\ todo' # <<>> => Link(h, Head(todo')) /\ (Head(todo') \in Jobs => h = "unit")
         /\ m # <<>> => todo' # <<>> /\ Head(todo') = m[1]
<1>1. todo # <<>> /\ todo[1] = h /\ todo \in Seq(Steps) /\ Pushed(todo, m, todo')
  BY PushShape DEF At, Idle, Then, Chain, Calm
<1>2. Course(todo')
  BY <1>1, PushCourse
<1>3. /\ Left(todo') \subseteq Left(todo) \cup Left(m) /\ Left(m) \subseteq Left(todo')
      /\ todo[1] \in Left(todo) /\ Left(todo) \ {todo[1]} \subseteq Left(todo')
      /\ todo[1] \in Core => todo[1] \notin Left(todo')
  BY <1>1, PushLeft DEF Calm
<1>4. /\ todo' \in Seq(Steps) /\ Len(todo) \in Nat \ {0} /\ Len(m) \in Nat
      /\ Len(todo') = Len(m) + Len(todo) - 1
      /\ \A i \in 1..Len(m) : todo'[i] = m[i]
      /\ \A i \in (Len(m) + 1)..Len(todo') : todo'[i] = todo[i - Len(m) + 1]
  BY <1>1 DEF Pushed
<1>5. ASSUME todo' # <<>> PROVE Head(todo') = todo'[1] /\ Len(todo') \in Nat \ {0}
  BY <1>4, <1>5, EmptySeq
<1>6. todo' # <<>> => Head(todo') \in Left(todo')
  <2>1. Len(todo') \in Nat \ {0} => 1 \in 1..Len(todo')
    OBVIOUS
  <2>2. QED
    BY <1>5, <2>1 DEF Left
<1>7. ASSUME m = <<>>, todo' # <<>>
      PROVE  Link(h, Head(todo')) /\ (Head(todo') \in Jobs => h = "unit")
  <2>1. Len(m) = 0 /\ todo'[1] = todo[2] /\ 2 \in 2..Len(todo)
    BY <1>4, <1>5, <1>7, EmptySeq
  <2>2. Link(todo[2 - 1], todo[2]) /\ (todo[2] \in Jobs => todo[2 - 1] = "unit")
    BY <2>1 DEF Chain, Course
  <2>3. QED
    BY <1>1, <1>5, <1>7, <2>1, <2>2
<1>8. ASSUME m # <<>> PROVE todo' # <<>> /\ Head(todo') = m[1]
  <2>1. Len(m) \in Nat \ {0} /\ 1 \in 1..Len(m) /\ Len(todo') # 0
    BY <1>4, <1>8, EmptySeq DEF Calm
  <2>2. QED
    BY <1>4, <1>5, <2>1, EmptySeq
<1>9. QED
  BY <1>1, <1>2, <1>3, <1>6, <1>7, <1>8
\* A unit file is a unit file.
LEMMA UnitFileIsFile ==
  ASSUME Types
  PROVE  generate_unit_file \in UnitFiles /\ generate_unit_file # None
<1>1. /\ p.restart_policy \in {"no", "on-failure", "oneshot", "always", "unless-stopped"}
      /\ p.graceful_timeout \in Int /\ p.client_timeout \in Int /\ p.restart_retries \in Nat \ {0}
  BY RequestsAssumption DEF Types, p
<1>2. RestartSec(p) \in Int
  BY <1>1 DEF RestartSec
<1>3. generate_unit_file \in UnitFiles
  BY <1>1, <1>2 DEF generate_unit_file, UnitFiles
<1>4. QED
  BY <1>3, ContainerAssumption

-----------------------------------------------------------------------------
(***************************************************************************)
(* What has been changed is reported, or will be.                          *)
(***************************************************************************)

Orders == Jobs \cup {"engine_start", "engine_stop"}

Recreates == op = "recreate_or_restart_container"

\* The next step writes a unit file where there is none, and reports it.
WillReport == At("unit") /\ unit.file = None

\* Which operations the steps belong to, and what they rely on.
Placed ==
    /\ Course(todo)
    /\ Left(todo) \cap Orders # {} => changed
    /\ At("pull") => image = None \/ (todo = <<"pull">> /\ touched = {})
    /\ At("decide") => touched = {} /\ seen = None /\ Recreates
    /\ "remove" \in Left(todo) => op \in Removals \/ Recreates
    /\ "clear" \in Left(todo) => op = "stop_and_remove_container"
    /\ Left(todo) \cap {"fit", "wait"} # {} => op = "start_container" \/ Recreates
    /\ "fit" \in Left(todo) => seen = None
    /\ \A j \in Jobs : At(j) => unit.file # None
    /\ "engine_start" \in Left(todo) => OneShot

\* recreate_or_restart_container removes the old container before it looks for one
\* to start.
Replaced ==
    Recreates =>
      /\ seen \in {None, "new"} /\ ("create" \in Left(todo) => seen = None)
      /\ "fit" \in Left(todo) /\ "remove" \notin Left(todo) => cont = None
      /\ Left(todo) \cap {"wait", "remove"} # {} => "create" \in Left(todo) \/ WillReport \/ changed

\* Only a removal by the Podman worker goes unreported.
Owed ==
    touched # {} /\ ~changed /\ res \in {"none", "ok"} =>
      \/ WillReport
      \/ /\ engine = "podman" /\ cont = None
         /\ op \in Removals \/ (Recreates /\ "create" \in Left(todo))

Account == Placed /\ Replaced /\ Owed

\* A step that reports what it touches, and calls for the steps m.
LEMMA AccountStep ==
  ASSUME Inv, Account, NEW h \in Steps \ {"fit", "decide", "pull", "remove"}, At(h),
         NEW m, Calm(m), h = "unit" => m = <<>>, Then(m),
         changed => changed', touched' # touched => changed',
         Left(m) \cap Orders # {} => changed',
         "remove" \in Left(m) => op \in Removals \/ Recreates,
         "remove" \in Left(m) /\ Recreates => changed',
         "clear" \notin Left(m), m # <<>> => m[1] # "decide",
         m # <<>> /\ m[1] = "pull" => image = None,
         h = "unit" /\ unit.file = None => changed',
         h = "create" => seen # None,
         h = "unit" \/ (m # <<>> /\ m[1] \in Jobs) => unit'.file # None,
         "engine_start" \in Left(m) => OneShot,
         UNCHANGED <<req, op, engine, image, seen>>, cont' = None <=> cont = None
  PROVE  Account'
<1>1. /\ Course(todo') /\ h \in Left(todo)
      /\ Left(todo') \subseteq Left(todo) \cup Left(m)
      /\ Left(todo) \ {h} \subseteq Left(todo')
      /\ m = <<>> /\ todo' # <<>> => Link(h, Head(todo')) /\ (Head(todo') \in Jobs => h = "unit")
      /\ m # <<>> => todo' # <<>> /\ Head(todo') = m[1]
  BY StepLeft DEF Inv, Account, Placed
<1>2. /\ ~At("decide")' /\ (At("pull")' => image' = None)
      /\ \A j \in Jobs : At(j)' => unit'.file # None
  BY <1>1 DEF At, Idle, Link
<1>3. Left(m) \cap Core = {}
  BY DEF Calm
<1>4. Placed'
  <2>1. Left(todo') \cap Orders # {} => changed'
    BY <1>1 DEF Account, Placed
  <2>2. "remove" \in Left(todo') => op' \in Removals \/ Recreates'
    BY <1>1 DEF Account, Placed, Recreates
  <2>3. "clear" \in Left(todo') => op' = "stop_and_remove_container"
    BY <1>1 DEF Account, Placed
  <2>4. Left(todo') \cap {"fit", "wait"} # {} => op' = "start_container" \/ Recreates'
    <3>1. Left(todo') \cap {"fit", "wait"} # {} => Left(todo) \cap {"fit", "wait"} # {}
      BY <1>1, <1>3 DEF Core
    <3>2. QED
      BY <3>1 DEF Account, Placed, Recreates
  <2>5. "fit" \in Left(todo') => seen' = None
    BY <1>1, <1>3 DEF Account, Placed, Core
  <2>6. "engine_start" \in Left(todo') => OneShot'
    BY <1>1 DEF Account, Placed, OneShot, p
  <2>7. QED
    BY <1>1, <1>2, <2>1, <2>2, <2>3, <2>4, <2>5, <2>6 DEF Placed
<1>5. h = "create" => cont # None
  BY DEF Inv, Ready
<1>6. WillReport => changed'
  BY DEF WillReport, At
<1>7. Replaced'
  <2> SUFFICES ASSUME Recreates PROVE Replaced'
    BY DEF Replaced, Recreates
  <2>1. /\ seen \in {None, "new"} /\ ("create" \in Left(todo) => seen = None)
        /\ "fit" \in Left(todo) /\ "remove" \notin Left(todo) => cont = None
        /\ Left(todo) \cap {"wait", "remove"} # {} =>
              "create" \in Left(todo) \/ WillReport \/ changed
    BY DEF Account, Replaced
  <2>2. ASSUME "fit" \in Left(todo'), "remove" \notin Left(todo') PROVE cont' = None
    <3>1. "fit" \in Left(todo) /\ "remove" \notin Left(todo)
      BY <1>1, <1>3, <2>2 DEF Core
    <3>2. QED
      BY <2>1, <3>1
  <2>3. ASSUME Left(todo') \cap {"wait", "remove"} # {}
        PROVE  "create" \in Left(todo') \/ changed'
    <3>1. "remove" \in Left(m) \/ Left(todo) \cap {"wait", "remove"} # {}
      BY <1>1, <1>3, <2>3 DEF Core
    <3>2. CASE "remove" \in Left(m)
      BY <3>2
    <3>3. CASE "create" \in Left(todo)
      <4>1. CASE h # "create"
        BY <1>1, <3>3, <4>1
      <4>2. CASE h = "create"
        BY <2>1, <3>3, <4>2
      <4>3. QED
        BY <4>1, <4>2
    <3>4. QED
      BY <1>6, <2>1, <3>1, <3>2, <3>3
  <2>4. "create" \in Left(todo') => seen' = None
    BY <1>1, <1>3, <2>1 DEF Core
  <2>5. QED
    BY <2>1, <2>2, <2>3, <2>4 DEF Replaced, Recreates
<1>8. Owed'
  <2> SUFFICES ASSUME touched' # {}, ~changed', res' \in {"none", "ok"} PROVE Owed'
    BY DEF Owed
  <2>1. touched # {} /\ ~changed /\ res = "none"
    BY DEF Inv, Ready, At, Idle
  <2>2. \/ WillReport
        \/ /\ engine = "podman" /\ cont = None
           /\ op \in Removals \/ (Recreates /\ "create" \in Left(todo))
    BY <2>1 DEF Account, Owed
  <2>3. CASE WillReport
    BY <1>6, <2>3
  <2>4. CASE /\ engine = "podman" /\ cont = None
             /\ op \in Removals \/ (Recreates /\ "create" \in Left(todo))
    <3>1. h # "create"
      BY <1>5, <2>4
    <3>2. "create" \in Left(todo) => "create" \in Left(todo')
      BY <1>1, <3>1
    <3>3. QED
      BY <2>4, <3>2 DEF Owed, Recreates
  <2>5. QED
    BY <2>2, <2>3, <2>4
<1>9. QED
  BY <1>4, <1>7, <1>8 DEF Account
\* The operation fails.
LEMMA AccountFails ==
  ASSUME Account, todo' = <<>>, res' \notin {"none", "ok"}, UNCHANGED <<op, seen>>
  PROVE  Account'
<1>1. Course(<<>>) /\ Left(<<>>) = {}
  BY DEF Course, Left
<1>2. ~At("pull")' /\ ~At("decide")' /\ \A j \in Jobs : ~At(j)'
  BY DEF At, Idle
<1>3. Placed'
  BY <1>1, <1>2 DEF Placed
<1>4. Replaced'
  BY <1>1 DEF Account, Replaced, Recreates
<1>5. QED
  BY <1>3, <1>4 DEF Account, Owed

\* Nothing that the module is about to do depends on what moves meanwhile.
LEMMA AccountElsewhere ==
  ASSUME Account, UNCHANGED <<module, image, engine>>, cont' = None <=> cont = None,
         unit'.file = unit.file
  PROVE  Account'
<1>1. UNCHANGED <<todo, op, seen, changed, touched, res>>
  BY DEF module
<1>2. Left(todo') = Left(todo) /\ (Course(todo') <=> Course(todo))
  BY <1>1
<1>3. /\ At("pull")' = At("pull") /\ At("decide")' = At("decide") /\ Recreates' = Recreates
      /\ WillReport' = WillReport /\ \A j \in Jobs : At(j)' = At(j)
      /\ OneShot' = OneShot
  BY DEF module, At, Idle, Recreates, WillReport, OneShot, p
<1>4. Placed'
  BY <1>1, <1>2, <1>3 DEF Account, Placed
<1>5. Replaced'
  BY <1>1, <1>2, <1>3 DEF Account, Replaced
<1>6. Owed'
  BY <1>1, <1>2, <1>3 DEF Account, Owed
<1>7. QED
  BY <1>4, <1>5, <1>6 DEF Account

\* The steps that only look.
LEMMA AccountLooking ==
  ASSUME Inv, Account,
         compare_container \/ ensure_image \/ run_container \/ wait_container \/ return_code
           \/ stop_container \/ stop_and_remove_container \/ restart_container \/ wait_for_unit
  PROVE  Account'
<1> USE DEF Jobs, Orders
<1>0. {"pull", "restart", "engine_start", "engine_stop", "rc_zero", "rc_error", "StopUnit",
       "StartUnit", "RestartUnit", "unit", "stop", "unlink", "remove", "await_dead",
       "await_running", "compare", "ensure", "clear"} \subseteq Steps \ Core
  BY DEF Steps, Core
<1>1. ASSUME NEW h \in (Steps \ {"fit", "decide", "pull", "remove", "create", "unit"}), NEW m, Look(h, m),
             Calm(m), changed => changed', Left(m) \cap Orders # {} => changed',
             "remove" \in Left(m) => op \in Removals \/ Recreates,
             "remove" \in Left(m) /\ Recreates => changed',
             "clear" \notin Left(m), m # <<>> => m[1] # "decide",
             m # <<>> /\ m[1] = "pull" => image = None,
             m # <<>> /\ m[1] \in Jobs => unit.file # None,
             "engine_start" \in Left(m) => OneShot
      PROVE  Account'
  BY <1>1, AccountStep DEF Look, World, Fixed
<1>2. ASSUME NEW why \in {"timed out", "return code", "no container"}, Fail(why),
             UNCHANGED <<Fixed, World, touched, seen>>
      PROVE  Account'
  BY <1>2, AccountFails DEF Fail, Fixed
<1>3. \A s : At(s) => s \in Left(todo)
  <2>1. ASSUME NEW s, At(s) PROVE s \in Left(todo)
    <3>1. todo # <<>> /\ todo[1] = s /\ Len(todo) \in Nat \ {0}
      BY <2>1, EmptySeq DEF At, Idle, Inv, Chain
    <3>2. 1 \in 1..Len(todo)
      BY <3>1
    <3>3. QED
      BY <3>1, <3>2 DEF Left
  <2>2. QED
    BY <2>1
<1>4. Calm(<<>>) /\ Left(<<>>) = {}
  BY CalmCalls
<1>5. \A a \in Steps \ Core : Calm(<<a>>) /\ Left(<<a>>) = {a} /\ <<a>>[1] = a
  BY CalmCalls
<1>6. /\ Calm(<<"StopUnit", "await_dead">>)
      /\ Left(<<"StopUnit", "await_dead">>) = {"StopUnit", "await_dead"}
      /\ <<"StopUnit", "await_dead">>[1] = "StopUnit"
      /\ Calm(<<"engine_stop", "engine_start">>)
      /\ Left(<<"engine_stop", "engine_start">>) = {"engine_stop", "engine_start"}
      /\ <<"engine_stop", "engine_start">>[1] = "engine_stop"
  BY <1>0, CalmCalls
<1>7. \A a \in Jobs, b \in {"await_dead", "await_running"} :
         /\ Calm(<<"unit", a, b>>) /\ Left(<<"unit", a, b>>) = {"unit", a, b}
         /\ <<"unit", a, b>>[1] = "unit"
  BY <1>0, CalmCalls
<1>8. /\ Calm(<<"stop", "unlink", "remove">>)
      /\ Left(<<"stop", "unlink", "remove">>) = {"stop", "unlink", "remove"}
      /\ <<"stop", "unlink", "remove">>[1] = "stop"
  BY <1>0, CalmCalls
<1>9. ASSUME NEW rc \in {"rc_zero", "rc_error"}
      PROVE  /\ Calm(<<"stop", "unlink", "remove", rc>>)
             /\ Left(<<"stop", "unlink", "remove", rc>>) = {"stop", "unlink", "remove", rc}
             /\ <<"stop", "unlink", "remove", rc>>[1] = "stop"
  <2>1. /\ "stop" \in Steps \ Core /\ "unlink" \in Steps \ Core /\ "remove" \in Steps \ Core
        /\ rc \in Steps \ Core /\ "unlink" \notin Jobs /\ "remove" \notin Jobs /\ rc \notin Jobs
    BY <1>0
  <2>2. QED
    BY <2>1, CalmCalls
<1>10. {"compare", "ensure", "run", "wait", "rc_zero", "rc_error", "stop", "clear", "restart",
        "await_running", "await_dead"}
         \subseteq Steps \ {"fit", "decide", "pull", "remove", "create", "unit"}
  BY DEF Steps
<1>11. CASE compare_container
  BY <1>1, <1>4, <1>10, <1>11 DEF compare_container, Report
<1>12. CASE ensure_image
  <2>1. CASE image = None
    <3>1. Look("ensure", <<"pull">>) /\ UNCHANGED changed
      BY <1>12, <2>1 DEF ensure_image
    <3>2. /\ Calm(<<"pull">>) /\ Left(<<"pull">>) = {"pull"} /\ <<"pull">>[1] = "pull"
      BY <1>0, <1>5
    <3>3. QED
      BY <1>1, <1>10, <2>1, <3>1, <3>2
  <2>2. CASE image # None
    BY <1>1, <1>4, <1>10, <1>12, <2>2 DEF ensure_image
  <2>3. QED
    BY <2>1, <2>2
<1>13. CASE run_container
  <2>1. /\ At("run") /\ (changed => changed') /\ (Status # "running" => changed')
        /\ UNCHANGED <<req, op, engine, World, touched, seen>>
    BY <1>13 DEF run_container, Report
  <2>2. ASSUME NEW m, Then(m), Calm(m), Left(m) \cap Orders # {} => changed',
               {"remove", "clear"} \cap Left(m) = {},
               m # <<>> => m[1] \notin {"decide", "pull"} \cup Jobs,
               "engine_start" \in Left(m) => OneShot
        PROVE  Account'
    BY <1>10, <2>1, <2>2, AccountStep DEF World
  <2>3. CASE Status = "running"
    <3>1. Then(<<>>)
      BY <1>13, <2>3 DEF run_container
    <3>2. QED
      BY <1>4, <2>2, <3>1
  <2>4. CASE Status # "running" /\ OneShot
    <3>1. Then(<<"engine_start">>)
      BY <1>13, <2>4 DEF run_container
    <3>2. /\ Calm(<<"engine_start">>) /\ Left(<<"engine_start">>) = {"engine_start"}
          /\ <<"engine_start">>[1] = "engine_start"
      BY <1>0, <1>5
    <3>3. QED
      BY <2>1, <2>2, <2>4, <3>1, <3>2
  <2>5. CASE Status # "running" /\ ~OneShot
    <3>1. Then(<<"unit", "StartUnit", "await_running">>)
      BY <1>13, <2>5 DEF run_container
    <3>2. /\ Calm(<<"unit", "StartUnit", "await_running">>)
          /\ Left(<<"unit", "StartUnit", "await_running">>) = {"unit", "StartUnit", "await_running"}
          /\ <<"unit", "StartUnit", "await_running">>[1] = "unit"
      BY <1>7
    <3>3. QED
      BY <2>1, <2>2, <2>5, <3>1, <3>2
  <2>6. QED
    BY <2>3, <2>4, <2>5
<1>14. CASE wait_container
  <2>1. CASE p.detach /\ Look("wait", <<>>) /\ UNCHANGED changed
    BY <1>1, <1>4, <1>10, <2>1
  <2>2. CASE ~p.detach /\ UNCHANGED changed
             /\ \E rc \in {"rc_zero", "rc_error"} :
                  Look("wait", (IF p.remove_on_exit THEN <<"stop">> \o RemoveSteps ELSE <<>>) \o <<rc>>)
    <3>1. PICK rc \in {"rc_zero", "rc_error"} :
             Look("wait", (IF p.remove_on_exit THEN <<"stop">> \o RemoveSteps ELSE <<>>) \o <<rc>>)
      BY <2>2
    <3>2. Look("wait", <<"stop", "unlink", "remove", rc>>) \/ Look("wait", <<rc>>)
      <4>1. <<"stop">> \o RemoveSteps = <<"stop", "unlink", "remove">>
        BY Concatenations DEF RemoveSteps
      <4>2. <<"stop", "unlink", "remove">> \o <<rc>> = <<"stop", "unlink", "remove", rc>>
        BY Concatenations
      <4>3. <<>> \o <<rc>> = <<rc>>
        BY Concatenations
      <4>4. QED
        BY <3>1, <4>1, <4>2, <4>3
    <3>3. CASE Look("wait", <<rc>>)
      <4>1. Calm(<<rc>>) /\ Left(<<rc>>) = {rc} /\ <<rc>>[1] = rc
        BY <1>0, <1>5
      <4>2. QED
        BY <1>1, <1>10, <2>2, <3>3, <4>1
    <3>4. CASE Look("wait", <<"stop", "unlink", "remove", rc>>)
      <4>1. At("wait") /\ "wait" \in Left(todo)
        BY <1>3, <3>4 DEF Look
      <4>2. Left(todo) = {"wait"}
        <5>1. todo # <<>> /\ todo[1] = "wait" /\ todo \in Seq(Steps)
          BY <4>1 DEF At, Idle, Inv, Chain
        <5>2. QED
          BY <5>1, CoreLeft DEF Account, Placed
      <4>3. (op \in Removals \/ Recreates) /\ (Recreates => changed)
        BY <4>1, <4>2 DEF Account, Placed, Replaced, WillReport, Removals, At
      <4>4. QED
        BY <1>1, <1>9, <1>10, <2>2, <3>4, <4>3
    <3>5. QED
      BY <3>2, <3>3, <3>4
  <2>3. QED
    BY <1>14, <2>1, <2>2 DEF wait_container
<1>15. CASE return_code
  <2>1. CASE Look("rc_zero", <<>>) /\ UNCHANGED changed
    BY <1>1, <1>4, <1>10, <2>1
  <2>2. CASE At("rc_error") /\ Fail("return code") /\ UNCHANGED <<Fixed, World, touched, seen>>
    BY <1>2, <2>2
  <2>3. QED
    BY <1>15, <2>1, <2>2 DEF return_code
<1>16. CASE stop_container
  <2>1. CASE Fail("no container") /\ UNCHANGED <<Fixed, World, touched, seen, changed>>
    BY <1>2, <2>1
  <2>2. CASE Look("stop", <<>>) /\ (changed => changed')
    BY <1>1, <1>4, <1>10, <2>2
  <2>3. ASSUME NEW m, m = StopSteps, Look("stop", m), changed' PROVE Account'
    <3>1. \/ m = <<"engine_stop">> \/ m = <<"unit", "StopUnit", "await_dead">>
          \/ m = <<"StopUnit", "await_dead">> /\ unit.file # None
      BY <2>3 DEF StopSteps, DockerStop, PodmanStop
    <3>2. /\ Calm(m) /\ "remove" \notin Left(m) /\ "clear" \notin Left(m)
          /\ m[1] # "decide" /\ m[1] # "pull" /\ (m[1] \in Jobs => unit.file # None)
          /\ "engine_start" \notin Left(m)
      <4>1. /\ Calm(<<"engine_stop">>) /\ Left(<<"engine_stop">>) = {"engine_stop"}
            /\ <<"engine_stop">>[1] = "engine_stop"
        BY <1>0, <1>5
      <4>2. QED
        BY <1>6, <1>7, <3>1, <4>1
    <3>3. "stop" \in Steps \ {"fit", "decide", "pull", "remove", "create", "unit"} /\ "stop" # "run"
      BY <1>10
    <3>4. QED
      BY <1>1, <2>3, <3>2, <3>3
  <2>4. CASE cont.status = "exited" /\ cont # None
    <3>1. Look("stop", <<>>) /\ (changed => changed')
      BY <1>16, <2>4 DEF stop_container, Report
    <3>2. QED
      BY <2>2, <3>1
  <2>5. CASE cont.status # "exited" /\ cont # None
    <3>1. Look("stop", StopSteps) /\ changed'
      BY <1>16, <2>5 DEF stop_container, Report
    <3>2. QED
      BY <2>3, <3>1
  <2>6. CASE cont = None
    <3>1. \/ Fail("no container") /\ UNCHANGED <<Fixed, World, touched, seen, changed>>
          \/ Look("stop", <<>>) /\ UNCHANGED changed
      BY <1>16, <2>6 DEF stop_container
    <3>2. QED
      BY <2>1, <2>2, <3>1
  <2>7. QED
    BY <2>4, <2>5, <2>6
<1>17. CASE stop_and_remove_container
  <2>1. <<"stop">> \o RemoveSteps = <<"stop", "unlink", "remove">>
    BY Concatenations DEF RemoveSteps
  <2>2. CASE Look("clear", <<>>) /\ UNCHANGED changed
    BY <1>1, <1>4, <1>10, <2>2
  <2>3. CASE Look("clear", <<"stop", "unlink", "remove">>) /\ UNCHANGED changed
    <3>1. op = "stop_and_remove_container"
      BY <1>3, <2>3 DEF Look, Account, Placed
    <3>2. QED
      BY <1>1, <1>8, <1>10, <2>3, <3>1 DEF Removals, Recreates
  <2>4. QED
    BY <1>17, <2>1, <2>2, <2>3 DEF stop_and_remove_container
<1>18. CASE restart_container
  <2>1. CASE Fail("no container") /\ UNCHANGED <<Fixed, World, touched, seen, changed>>
    BY <1>2, <2>1
  <2>2. CASE changed' /\ ((OneShot /\ Look("restart", <<"engine_stop", "engine_start">>))
                            \/ Look("restart", <<"unit", "RestartUnit", "await_running">>))
    BY <1>1, <1>6, <1>7, <1>10, <2>2
  <2>3. QED
    BY <1>18, <2>1, <2>2 DEF restart_container, DockerRestart, PodmanRestart, Report
<1>19. CASE wait_for_unit
  <2>1. PICK h \in {"await_running", "await_dead"} : At(h)
    BY <1>19 DEF wait_for_unit
  <2>2. CASE Then(<<>>)
    BY <1>1, <1>4, <1>10, <1>19, <2>1, <2>2 DEF wait_for_unit, Look
  <2>3. CASE Fail("timed out")
    BY <1>2, <1>19, <2>3 DEF wait_for_unit
  <2>4. QED
    BY <1>19, <2>2, <2>3 DEF wait_for_unit
<1>20. QED
  BY <1>11, <1>12, <1>13, <1>14, <1>15, <1>16, <1>17, <1>18, <1>19
\* The steps that write files, volumes or images, or give an order.
LEMMA AccountMoving ==
  ASSUME Inv, Account,
         create_unit_file \/ Enqueue \/ engine_start \/ engine_stop \/ remove_unit_file
           \/ create_volume \/ remove_volume \/ remove_image
  PROVE  Account'
<1>0. {"unit", "StartUnit", "StopUnit", "RestartUnit", "engine_start", "engine_stop", "unlink",
       "create_volume", "remove_volume", "remove_image"}
         \subseteq Steps \ {"fit", "decide", "pull", "remove", "create", "run"}
  BY DEF Steps
<1>1. ASSUME NEW h \in Steps \ {"fit", "decide", "pull", "remove", "create", "run"}, At(h), Then(<<>>),
             changed => changed', touched' # touched => changed',
             h = "unit" => unit'.file # None, h = "unit" /\ unit.file = None => changed',
             UNCHANGED <<req, op, engine, image, seen>>, cont' = None <=> cont = None
      PROVE  Account'
  <2>1. Calm(<<>>) /\ Left(<<>>) = {}
    BY CalmCalls
  <2>2. QED
    BY <1>1, <2>1, AccountStep
<1>2. \A s : At(s) => s \in Left(todo)
  <2>1. ASSUME NEW s, At(s) PROVE s \in Left(todo)
    <3>1. todo # <<>> /\ todo[1] = s /\ Len(todo) \in Nat \ {0}
      BY <2>1, EmptySeq DEF At, Idle, Inv, Chain
    <3>2. 1 \in 1..Len(todo)
      BY <3>1
    <3>3. QED
      BY <3>1, <3>2 DEF Left
  <2>2. QED
    BY <2>1
<1>3. ASSUME NEW h \in Orders, At(h) PROVE changed
  BY <1>2, <1>3 DEF Account, Placed
<1>4. CASE create_unit_file
  <2>1. unit'.file # None
    <3>1. unit'.file = generate_unit_file
      BY <1>4 DEF create_unit_file, Inv, Types
    <3>2. QED
      BY <3>1, UnitFileIsFile DEF Inv
  <2>2. unit.file = None => changed'
    BY <1>4, UnitFileIsFile DEF create_unit_file, Report, check_unit_change, Inv
  <2>3. QED
    BY <1>0, <1>1, <1>4, <2>1, <2>2 DEF create_unit_file, Report, Touch, Fixed
<1>5. CASE Enqueue
  <2>1. PICK j \in Jobs : At(j) /\ Then(<<>>) /\ UNCHANGED <<Fixed, cont, image, seen, changed>>
    BY <1>5 DEF Enqueue
  <2>2. changed /\ j \in Steps \ {"fit", "decide", "pull", "remove", "create", "run"}
    BY <1>0, <1>3, <2>1 DEF Orders, Jobs
  <2>3. j # "unit"
    BY DEF Jobs
  <2>4. QED
    BY <1>1, <2>1, <2>2, <2>3 DEF Fixed
<1>6. CASE engine_start
  <2>1. changed /\ UNCHANGED <<req, op, engine, image, seen, changed>>
    BY <1>3, <1>6 DEF engine_start, Orders, Fixed
  <2>2. cont # None /\ cont' # None
    BY <1>6, StartedIsContainer DEF engine_start, Inv
  <2>3. QED
    BY <1>0, <1>1, <1>6, <2>1, <2>2 DEF engine_start
<1>7. CASE engine_stop
  <2>1. changed /\ UNCHANGED <<req, op, engine, image, seen, changed>>
    BY <1>3, <1>7 DEF engine_stop, Orders, Fixed
  <2>2. cont # None /\ cont' # None
    <3>1. cont # None /\ cont \in Containers /\ Types
      BY <1>7 DEF engine_stop, Inv, Types
    <3>2. cont' \in Containers
      BY <1>7, <3>1 DEF engine_stop, Containers, Statuses
    <3>3. QED
      BY <3>1, <3>2, ContainerAssumption
  <2>3. QED
    BY <1>0, <1>1, <1>7, <2>1, <2>2 DEF engine_stop
<1>8. CASE remove_unit_file
  BY <1>0, <1>1, <1>8 DEF remove_unit_file, Report, Touch, Fixed
<1>9. CASE create_volume
  BY <1>0, <1>1, <1>9 DEF create_volume, Report, Touch, Fixed
<1>10. CASE remove_volume
  <2>1. CASE Fail("in use")
    BY <1>10, <2>1, AccountFails DEF remove_volume, Fail, Fixed
  <2>2. CASE Then(<<>>) /\ Touch(IF Exists(p.name) THEN {"volume"} ELSE {})
    BY <1>0, <1>1, <1>10, <2>2 DEF remove_volume, Report, Touch, Fixed
  <2>3. QED
    BY <1>10, <2>1, <2>2 DEF remove_volume
<1>11. CASE remove_image
  <2>1. CASE Fail("in use")
    BY <1>11, <2>1, AccountFails DEF remove_image, Fail, Fixed
  <2>2. CASE Then(<<>>)
    <3>1. todo' = <<>>
      BY <1>11, <2>2, NextInLine DEF remove_image, Link
    <3>2. touched' # touched => changed'
      BY <1>11, <2>2 DEF remove_image, Report, Touch
    <3>3. UNCHANGED <<req, op, engine, seen, cont>> /\ (changed => changed') /\ res = "none"
      BY <1>11 DEF remove_image, Report, Fixed, Inv, Ready, At, Idle
    <3>4. Left(<<>>) = {} /\ Course(<<>>)
      BY DEF Left, Course
    <3>5. Placed' /\ Replaced'
      BY <3>1, <3>3, <3>4 DEF Placed, Replaced, At, Idle, Account, Recreates
    <3>6. Owed'
      <4>1. At("remove_image") /\ ~("create" \in Left(todo))
        <5>1. At("remove_image") /\ todo # <<>> /\ todo[1] = "remove_image" /\ Len(todo) = 1
          <6>1. At("remove_image") /\ Chain(todo)
            BY <1>11 DEF remove_image, Inv
          <6>2. todo # <<>> /\ todo[1] = "remove_image"
            BY <6>1 DEF At, Idle, Chain
          <6>3. QED
            BY <6>1, <6>2, Alone
        <5>2. Left(todo) = {"remove_image"}
          BY <5>1 DEF Left
        <5>3. QED
          BY <5>1, <5>2
      <4>2. QED
        BY <3>1, <3>2, <3>3, <3>4, <4>1 DEF Owed, Account, WillReport, Recreates, At
    <3>7. QED
      BY <3>5, <3>6 DEF Account
  <2>3. QED
    BY <1>11, <2>1, <2>2 DEF remove_image
<1>12. QED
  BY <1>4, <1>5, <1>6, <1>7, <1>8, <1>9, <1>10, <1>11
\* pull_image reports a new image; where it reports none, nothing was touched.
LEMMA AccountPulling ==
  ASSUME Inv, Account, pull_image
  PROVE  Account'
<1>1. At("pull") /\ UNCHANGED <<Fixed, cont, unit, volumes, seen>>
  BY DEF pull_image
<1>2. CASE Fail("no image")
  BY <1>1, <1>2, AccountFails DEF Fail, Fixed
<1>3. CASE /\ registry # None /\ Then(<<>>) /\ changed' = (image # registry)
           /\ Touch(IF image # registry THEN {"image"} ELSE {})
  <2>1. image = None \/ (todo = <<"pull">> /\ touched = {})
    BY <1>1 DEF Account, Placed
  <2>2. Calm(<<>>) /\ Left(<<>>) = {}
    BY CalmCalls
  <2>3. /\ Course(todo') /\ Left(todo') \subseteq Left(todo)
        /\ todo' # <<>> => Link("pull", Head(todo')) /\ Head(todo') \notin Jobs
        /\ Left(todo) \ {"pull"} \subseteq Left(todo')
    BY <1>1, <1>3, <2>2, StepLeft DEF Inv, Account, Placed
  <2>4. ~At("pull")' /\ ~At("decide")' /\ \A j \in Jobs : ~At(j)'
    BY <2>3 DEF At, Idle, Link
  <2>5. changed' \/ (todo' = <<>> /\ touched' = {})
    <3>1. CASE image = None
      BY <1>3, <3>1
    <3>2. CASE todo = <<"pull">> /\ touched = {}
      <4>1. todo' = <<>>
        <5>1. Tail(<<"pull">>) = <<>> /\ <<>> \o <<>> = <<>>
          OBVIOUS
        <5>2. QED
          BY <1>3, <3>2, <5>1 DEF Then
      <4>2. QED
        BY <1>3, <3>2, <4>1 DEF Touch
    <3>3. QED
      BY <2>1, <3>1, <3>2
  <2>6. todo' = <<>> => Left(todo') = {}
    BY <2>2
  <2>7. UNCHANGED <<req, op, seen, cont, engine>> /\ OneShot' = OneShot
    BY <1>1 DEF Fixed, OneShot, p
  <2>8. Placed'
    <3>1. Left(todo') \cap Orders # {} => changed'
      BY <2>5, <2>6
    <3>2. QED
      BY <2>3, <2>4, <2>7, <3>1 DEF Account, Placed, Recreates
  <2>9. Replaced'
    <3>1. "fit" \in Left(todo') /\ "remove" \notin Left(todo')
             => "fit" \in Left(todo) /\ "remove" \notin Left(todo)
      BY <2>3
    <3>2. Left(todo') \cap {"wait", "remove"} # {} => changed'
      BY <2>5, <2>6
    <3>3. "create" \in Left(todo') => "create" \in Left(todo)
      BY <2>3
    <3>4. SUFFICES ASSUME Recreates PROVE Replaced'
      BY <2>7 DEF Replaced, Recreates
    <3>5. QED
      BY <2>7, <3>1, <3>2, <3>3, <3>4 DEF Account, Replaced
  <2>10. Owed'
    BY <2>5 DEF Owed
  <2>11. QED
    BY <2>8, <2>9, <2>10 DEF Account
<1>4. QED
  BY <1>2, <1>3 DEF pull_image

\* recreate_or_restart_container decides before anything is touched.
LEMMA AccountDeciding ==
  ASSUME Inv, Account, recreate_or_restart_container
  PROVE  Account'
<1>1. /\ At("decide") /\ UNCHANGED <<Fixed, World, touched, seen>>
      /\ touched = {} /\ Recreates
  BY DEF recreate_or_restart_container, Look, Account, Placed
<1>2. UNCHANGED <<op, seen, cont, engine, image, touched>>
  BY <1>1 DEF Fixed, World
<1>3. ASSUME NEW m, Then(m), m \in Seq(Steps), Course(m), m # <<>> => m[1] \in {"ensure", "restart"},
             \/ cont = None /\ Left(m) = {"ensure", "fit", "create", "run", "wait"}
             \/ Left(m) = {"ensure", "stop", "unlink", "remove", "fit", "create", "run", "wait"}
             \/ Left(m) \subseteq {"restart"}
      PROVE  Account'
  <2>1. todo' = m
    <3>1. todo # <<>> /\ todo[1] = "decide" /\ Chain(todo) /\ todo \in Seq(Steps)
      BY <1>1 DEF At, Idle, Inv, Chain
    <3>2. Len(todo) = 1
      BY <3>1, Alone
    <3>3. Pushed(todo, m, todo')
      BY <1>3, <3>1, PushShape DEF Then
    <3>4. todo' \in Seq(Steps) /\ Len(todo') = Len(m) /\ \A i \in 1..Len(m) : todo'[i] = m[i]
      BY <1>3, <3>2, <3>3 DEF Pushed
    <3>5. QED
      BY <1>3, <3>4, SeqEqual
  <2>2. ~At("pull")' /\ ~At("decide")' /\ \A j \in Jobs : ~At(j)'
    <3>1. m # <<>> => Head(m) = m[1]
      BY <1>3
    <3>2. QED
      BY <1>3, <2>1, <3>1 DEF At, Idle, Jobs
  <2>3. seen' = None /\ op' = op /\ touched' = {} /\ Recreates' /\ engine' = engine /\ cont' = cont
    BY <1>1, <1>2 DEF Account, Placed, Recreates
  <2>4. Placed'
    BY <1>3, <2>1, <2>2, <2>3 DEF Placed, Orders, Jobs, Recreates
  <2>5. Replaced'
    BY <1>3, <2>1, <2>3 DEF Replaced
  <2>6. QED
    BY <2>3, <2>4, <2>5 DEF Account, Owed
<1>4. CASE cont = None /\ Then(StartSteps)
  <2>1. StartSteps[1] = "ensure"
    BY DEF StartSteps
  <2>2. QED
    BY <1>3, <1>4, <2>1, StartingCourse
<1>5. CASE Then(RecreateSteps)
  BY <1>3, <1>5, RecreatingCourse, Recreating
<1>6. ASSUME NEW m \in {<<"restart">>, <<>>}, Then(m) PROVE Account'
  <2>1. m \in Seq(Steps) /\ Left(m) \subseteq {"restart"} /\ (m # <<>> => m[1] = "restart")
    <3>1. Left(<<>>) = {} /\ <<>> \in Seq(Steps)
      BY CalmCalls
    <3>2. Left(<<"restart">>) = {"restart"} /\ <<"restart">>[1] = "restart"
          /\ <<"restart">> \in Seq(Steps)
      BY CalmCalls DEF Steps, Core
    <3>3. QED
      BY <1>6, <3>1, <3>2
  <2>2. Course(m)
    BY <1>6 DEF Course, Jobs
  <2>3. QED
    BY <1>3, <1>6, <2>1, <2>2
<1>7. QED
  <2>1. Then(IF cont = None THEN StartSteps
             ELSE IF Strategy = "COPY_ONCE" \/ Differs THEN RecreateSteps
             ELSE IF Strategy = "COPY_ALWAYS" THEN <<"restart">> ELSE <<>>)
    BY DEF recreate_or_restart_container, Look
  <2> HIDE DEF Then
  <2>2. QED
    BY <1>4, <1>5, <1>6, <2>1
\* A misfit goes before another container is created; otherwise the container that
\* is there is looked at.
LEMMA AccountFitting ==
  ASSUME Inv, Account, fit_container
  PROVE  Account'
<1> DEFINE misfit == cont # None /\ Differs
<1>1. /\ At("fit") /\ UNCHANGED <<op, engine, cont, image, touched, changed>>
      /\ seen' = IF cont = None \/ misfit THEN None ELSE cont.status
      /\ Then(IF misfit THEN <<"stop">> \o RemoveSteps ELSE <<>>)
  BY DEF fit_container, Fixed, World
<1> HIDE DEF misfit
<1>2. Left(todo) = {"fit", "create", "run", "wait"}
  <2>1. todo # <<>> /\ todo[1] = "fit" /\ todo \in Seq(Steps)
    BY <1>1 DEF At, Idle, Inv, Chain
  <2>2. QED
    BY <2>1, CoreLeft DEF Account, Placed
<1>3. PICK m \in {<<>>, <<"stop", "unlink", "remove">>} : Then(m)
  <2>1. <<"stop">> \o RemoveSteps = <<"stop", "unlink", "remove">>
    BY Concatenations DEF RemoveSteps
  <2>2. QED
    BY <1>1, <2>1
<1>4. /\ Calm(m) /\ Left(m) \subseteq {"stop", "unlink", "remove"}
      /\ m # <<>> => m[1] = "stop"
  <2>1. Calm(<<>>) /\ Left(<<>>) = {}
    BY CalmCalls
  <2>2. /\ Calm(<<"stop", "unlink", "remove">>)
        /\ Left(<<"stop", "unlink", "remove">>) = {"stop", "unlink", "remove"}
        /\ <<"stop", "unlink", "remove">>[1] = "stop"
    BY CalmCalls DEF Steps, Core, Jobs
  <2>3. QED
    BY <1>3, <2>1, <2>2
<1>5. /\ Course(todo') /\ Left(todo') \subseteq Left(todo) \cup Left(m)
      /\ Left(todo) \ {"fit"} \subseteq Left(todo') /\ "fit" \notin Left(todo')
      /\ m = <<>> /\ todo' # <<>> => Link("fit", Head(todo')) /\ Head(todo') \notin Jobs
      /\ m # <<>> => todo' # <<>> /\ Head(todo') = m[1]
  BY <1>1, <1>3, <1>4, StepLeft DEF Inv, Account, Placed, Core
<1>6. /\ Left(todo') \subseteq {"create", "run", "wait", "stop", "unlink", "remove"}
      /\ {"create", "run", "wait"} \subseteq Left(todo')
  BY <1>2, <1>4, <1>5
<1>7. ~At("pull")' /\ ~At("decide")' /\ \A j \in Jobs : ~At(j)'
  BY <1>4, <1>5 DEF At, Idle, Link, Jobs
<1>8. (op = "start_container" \/ Recreates) /\ seen = None
  BY <1>2 DEF Account, Placed
<1>9. Placed'
  BY <1>1, <1>5, <1>6, <1>7, <1>8 DEF Placed, Orders, Jobs, Recreates, Removals
<1>10. Replaced'
  <2>1. Recreates => cont = None
    BY <1>2 DEF Account, Replaced
  <2>2. QED
    BY <1>1, <1>6, <1>5, <2>1 DEF Replaced, Recreates
<1>11. Owed'
  <2>1. SUFFICES ASSUME touched # {}, ~changed PROVE Owed'
    BY <1>1 DEF Owed
  <2>2. ~WillReport /\ res = "none"
    <3>1. todo # <<>>
      BY <1>1 DEF At, Idle
    <3>2. QED
      BY <1>1, <3>1 DEF WillReport, Inv, Ready, At
  <2>3. engine = "podman" /\ cont = None
    BY <2>1, <2>2 DEF Account, Owed
  <2>4. QED
    BY <1>1, <1>6, <1>8, <2>3 DEF Owed, Recreates, Removals
<1>12. QED
  BY <1>9, <1>10, <1>11 DEF Account

\* A container that is created is reported by Docker's worker at once, by Podman's when
\* its unit file is written, which there was none of.
LEMMA AccountCreating ==
  ASSUME Inv, Account, create_container
  PROVE  Account'
<1>1. At("create") /\ UNCHANGED <<req, op, engine, image, unit>>
  BY DEF create_container, Fixed
<1>2. Left(todo) = {"create", "run", "wait"}
  <2>1. todo # <<>> /\ todo[1] = "create" /\ todo \in Seq(Steps)
    BY <1>1 DEF At, Idle, Inv, Chain
  <2>2. QED
    BY <2>1, CoreLeft DEF Account, Placed
<1>3. CASE seen # None /\ Then(<<>>) /\ UNCHANGED <<cont, volumes, seen, changed, touched>>
  <2>1. "create" \in Steps \ {"fit", "decide", "pull", "remove"} /\ Calm(<<>>) /\ Left(<<>>) = {}
    BY CalmCalls DEF Steps
  <2>2. QED
    BY <1>1, <1>3, <2>1, AccountStep
<1>4. CASE /\ seen = None /\ Then(IF engine = "docker" /\ OneShot THEN <<>> ELSE <<"unit">>)
           /\ seen' = "new" /\ (engine = "docker" => changed')
  <2>1. PICK m \in {<<>>, <<"unit">>} : Then(m) /\ (engine = "docker" \/ m = <<"unit">>)
    BY <1>4
  <2>2. Calm(m) /\ Left(m) \subseteq {"unit"} /\ (m # <<>> => m[1] = "unit")
    <3>1. Calm(<<>>) /\ Left(<<>>) = {}
      BY CalmCalls
    <3>2. Calm(<<"unit">>) /\ Left(<<"unit">>) = {"unit"} /\ <<"unit">>[1] = "unit"
      BY CalmCalls DEF Steps, Core
    <3>3. QED
      BY <2>1, <3>1, <3>2
  <2>3. /\ Course(todo') /\ Left(todo') \subseteq Left(todo) \cup Left(m)
        /\ Left(todo) \ {"create"} \subseteq Left(todo') /\ "create" \notin Left(todo')
        /\ m = <<>> /\ todo' # <<>> => Link("create", Head(todo')) /\ Head(todo') \notin Jobs
        /\ m # <<>> => todo' # <<>> /\ Head(todo') = m[1]
    BY <1>1, <2>1, <2>2, StepLeft DEF Inv, Account, Placed, Core
  <2>4. Left(todo') \subseteq {"create", "run", "wait", "unit"}
    BY <1>2, <2>2, <2>3
  <2>5. ~At("pull")' /\ ~At("decide")' /\ \A j \in Jobs : ~At(j)'
    BY <2>2, <2>3 DEF At, Idle, Link, Jobs
  <2>6. op = "start_container" \/ Recreates
    BY <1>2 DEF Account, Placed
  <2>7. Placed'
    BY <1>1, <2>3, <2>4, <2>5, <2>6 DEF Placed, Orders, Jobs, Recreates
  <2>8. WillReport' \/ changed'
    <3>1. unit.file = None /\ unit' = unit
      BY <1>1, <1>4 DEF Inv, Ready, NoOrphanUnit
    <3>2. CASE engine = "docker"
      BY <1>4, <3>2
    <3>3. CASE m = <<"unit">>
      BY <2>2, <2>3, <3>1, <3>3 DEF WillReport, At, Idle
    <3>4. QED
      BY <2>1, <3>2, <3>3
  <2>9. Replaced'
    BY <1>4, <2>3, <2>4, <2>8 DEF Replaced
  <2>10. QED
    BY <2>7, <2>8, <2>9 DEF Account, Owed
<1>5. QED
  BY <1>3, <1>4 DEF create_container, Report

\* Volumes are reported as they are created.
LEMMA AccountVolumes ==
  ASSUME Inv, Account, create_container_volumes
  PROVE  Account'
<1>1. /\ At("create") /\ changed' = TRUE
      /\ UNCHANGED <<req, op, engine, todo, res, cont, image, unit, seen>>
  BY VolumesFirst
<1>2. /\ Left(todo') = Left(todo) /\ (Course(todo') <=> Course(todo)) /\ OneShot' = OneShot
      /\ Recreates' = Recreates /\ WillReport' = WillReport /\ \A j \in Jobs : At(j)' = At(j)
  BY <1>1 DEF OneShot, p, Recreates, WillReport, At, Idle
<1>3. ~At("pull")' /\ ~At("decide")'
  BY <1>1 DEF At, Idle
<1>4. Placed'
  BY <1>1, <1>2, <1>3 DEF Account, Placed
<1>5. Replaced'
  BY <1>1, <1>2 DEF Account, Replaced
<1>6. QED
  BY <1>1, <1>4, <1>5 DEF Account, Owed

\* remove_container reports what it removes with Docker; with Podman the operation
\* may be one that ends so, or creates the container again.
LEMMA AccountRemoving ==
  ASSUME Inv, Account, remove_container, engine \in {"docker", "podman"}
  PROVE  Account'
<1>1. /\ At("remove") /\ Then(<<>>) /\ cont' = None /\ UNCHANGED <<op, engine, image, seen>>
      /\ OneShot' = OneShot
      /\ changed' = (changed \/ (engine = "docker" /\ cont # None))
      /\ touched' = touched \cup (IF cont # None THEN {"service"} ELSE {})
  BY DEF remove_container, Fixed, Report, Touch, OneShot, p
<1>2. Calm(<<>>) /\ Left(<<>>) = {}
  BY CalmCalls
<1>3. /\ Course(todo') /\ Left(todo') \subseteq Left(todo) /\ "remove" \in Left(todo)
      /\ Left(todo) \ {"remove"} \subseteq Left(todo')
      /\ todo' # <<>> => Link("remove", Head(todo')) /\ Head(todo') \notin Jobs
  BY <1>1, <1>2, StepLeft DEF Inv, Account, Placed
<1>4. ~At("pull")' /\ ~At("decide")' /\ \A j \in Jobs : ~At(j)'
  BY <1>3 DEF At, Idle, Link
<1>5. op \in Removals \/ Recreates
  BY <1>3 DEF Account, Placed
<1>6. Placed'
  BY <1>1, <1>3, <1>4 DEF Account, Placed, Recreates
<1>7. ~WillReport
  BY <1>1 DEF WillReport, At
<1>8. Recreates => "create" \in Left(todo) \/ WillReport \/ changed
  BY <1>3 DEF Account, Replaced
<1>9. Replaced'
  BY <1>1, <1>3, <1>7, <1>8 DEF Account, Replaced, Recreates
<1>10. Owed'
  <2>1. SUFFICES ASSUME touched' # {}, ~changed' PROVE Owed'
    BY DEF Owed
  <2>2. CASE engine = "podman"
    BY <1>1, <1>3, <1>5, <1>7, <1>8, <2>1, <2>2 DEF Owed, Recreates
  <2>3. CASE engine = "docker"
    <3>1. touched # {} /\ ~changed /\ res = "none"
      BY <1>1, <2>1, <2>3 DEF Inv, Ready, At, Idle
    <3>2. QED
      BY <1>7, <2>3, <3>1 DEF Account, Owed
  <2>4. QED
    BY <2>2, <2>3
<1>11. QED
  BY <1>6, <1>9, <1>10 DEF Account
\* Where the steps of an operation stand when it begins.
LEMMA ProgramCourse ==
  ASSUME NEW o \in DOMAIN Program
  PROVE  /\ Course(Program[o]) /\ Left(Program[o]) \cap Orders = {} /\ Program[o] # <<>>
         /\ Head(Program[o]) \notin Jobs
         /\ Head(Program[o]) = "pull" => Program[o] = <<"pull">>
         /\ Head(Program[o]) = "decide" => o = "recreate_or_restart_container"
         /\ "remove" \in Left(Program[o]) => o = "remove_container"
         /\ "clear" \in Left(Program[o]) => o = "stop_and_remove_container"
         /\ Left(Program[o]) \cap {"fit", "wait"} # {} => o = "start_container"
<1> USE DEF Jobs, Orders
<1>1. ASSUME NEW a \in {"compare", "ensure", "pull", "decide", "stop", "clear", "restart",
                       "create_volume", "remove_volume", "remove_image"}
      PROVE  Course(<<a>>) /\ Left(<<a>>) = {a} /\ <<a>> # <<>> /\ Head(<<a>>) = a
  <2>1. a \in Steps \ Core
    BY DEF Steps, Core
  <2>2. Left(<<a>>) = {a}
    BY <2>1, CalmCalls
  <2>3. Course(<<a>>)
    BY DEF Course
  <2>4. QED
    BY <2>2, <2>3
<1>2. /\ Course(RemoveSteps) /\ Left(RemoveSteps) = {"unlink", "remove"} /\ RemoveSteps # <<>>
      /\ Head(RemoveSteps) = "unlink"
  <2>1. "unlink" \in Steps \ Core /\ "remove" \in Steps \ Core /\ "remove" \notin Jobs
    BY DEF Steps, Core
  <2>2. Left(RemoveSteps) = {"unlink", "remove"}
    BY <2>1, CalmCalls DEF RemoveSteps
  <2>3. Course(RemoveSteps)
    BY DEF Course, RemoveSteps
  <2>4. QED
    BY <2>2, <2>3 DEF RemoveSteps
<1>3. StartSteps # <<>> /\ Head(StartSteps) = "ensure"
  BY DEF StartSteps
<1>4. DOMAIN Program = {"compare_container", "ensure_image", "pull_image",
        "recreate_or_restart_container", "start_container", "stop_container", "remove_container",
        "stop_and_remove_container", "restart_container", "create_volume", "remove_volume",
        "remove_image"}
  BY DEF Program
<1>5. CASE o = "start_container"
  BY <1>3, <1>5, StartingCourse DEF Program
<1>6. CASE o = "remove_container"
  BY <1>2, <1>6 DEF Program
<1>7. ASSUME NEW a \in {"compare", "ensure", "pull", "decide", "stop", "clear", "restart",
                       "create_volume", "remove_volume", "remove_image"}, Program[o] = <<a>>,
             a = "decide" => o = "recreate_or_restart_container",
             a = "clear" => o = "stop_and_remove_container"
      PROVE  /\ Course(Program[o]) /\ Left(Program[o]) \cap Orders = {} /\ Program[o] # <<>>
             /\ Head(Program[o]) \notin Jobs
             /\ Head(Program[o]) = "pull" => Program[o] = <<"pull">>
             /\ Head(Program[o]) = "decide" => o = "recreate_or_restart_container"
             /\ "remove" \in Left(Program[o]) => o = "remove_container"
             /\ "clear" \in Left(Program[o]) => o = "stop_and_remove_container"
             /\ Left(Program[o]) \cap {"fit", "wait"} # {} => o = "start_container"
  BY <1>1, <1>7
<1>8. CASE o \notin {"start_container", "remove_container"}
  <2>1. \E a \in {"compare", "ensure", "pull", "decide", "stop", "clear", "restart",
                  "create_volume", "remove_volume", "remove_image"} :
           /\ Program[o] = <<a>> /\ (a = "decide" => o = "recreate_or_restart_container")
           /\ a = "clear" => o = "stop_and_remove_container"
    BY <1>4, <1>8 DEF Program
  <2>2. QED
    BY <1>7, <2>1
<1>9. QED
  BY <1>5, <1>6, <1>8

LEMMA AccountBeginning ==
  ASSUME NEW c \in Calls, Begin(c[1], c[2])
  PROVE  Account'
<1>1. c[1] \in DOMAIN Program /\ c[2] \in DOMAIN Requests
  BY ContainerAssumption
<1>2. op' = c[1] /\ todo' = Program[c[1]] /\ seen' = None /\ touched' = {}
  BY DEF Begin
<1>3. /\ Course(todo') /\ Left(todo') \cap Orders = {} /\ todo' # <<>>
      /\ Head(todo') \notin Jobs
      /\ Head(todo') = "pull" => todo' = <<"pull">>
      /\ Head(todo') = "decide" => op' = "recreate_or_restart_container"
      /\ "remove" \in Left(todo') => op' = "remove_container"
      /\ "clear" \in Left(todo') => op' = "stop_and_remove_container"
      /\ Left(todo') \cap {"fit", "wait"} # {} => op' = "start_container"
  BY <1>1, <1>2, ProgramCourse
<1>4. Placed'
  BY <1>2, <1>3 DEF Placed, At, Idle, Recreates, Removals, Orders
<1>5. Replaced'
  BY <1>2, <1>3 DEF Replaced, Recreates
<1>6. QED
  BY <1>2, <1>4, <1>5 DEF Account, Owed

\* systemd, the engine and the outside.
LEMMA AccountOutside ==
  ASSUME Inv, Account,
         Systemd \/ Unload \/ StartLimitHit \/ ContainerExits \/ ImagePublished \/ RegistryFails
           \/ ConfigChanges \/ CallFails \/ UNCHANGED vars
  PROVE  Account'
<1>1. CASE CallFails
  BY <1>1, AccountFails DEF CallFails, Fail
<1>2. CASE Systemd \/ Unload \/ StartLimitHit \/ ContainerExits
  <2>1. UNCHANGED <<module, image, engine>> /\ unit'.file = unit.file
    BY <1>2 DEF Inv, Types, Systemd, Unload, StartLimitHit, StopJob, StartJob, RestartJob, ExecStarts,
           ExecEnds, Ended, AutoRestart, Outside, ContainerExits
  <2>2. \/ cont' = cont
        \/ cont # None /\ cont' = Started(cont)
        \/ cont # None /\ cont' = [cont EXCEPT !.status = "exited"]
    BY <1>2 DEF Systemd, Unload, StartLimitHit, StopJob, StartJob, RestartJob, ExecStarts, ExecEnds,
           AutoRestart, Up, ContainerExits
  <2>3. cont' = cont \/ (cont # None /\ cont' # None)
    <3>1. "exited" \in Statuses /\ Types
      BY DEF Statuses, Inv
    <3>2. QED
      BY <2>2, <3>1, StartedIsContainer, StatusIsContainer
  <2>4. QED
    BY <2>1, <2>3, AccountElsewhere
<1>3. CASE ImagePublished \/ RegistryFails \/ ConfigChanges \/ UNCHANGED vars
  BY <1>3, AccountElsewhere DEF ImagePublished, RegistryFails, ConfigChanges, vars
<1>4. QED
  BY <1>1, <1>2, <1>3

LEMMA InitAccount == Init => Account
<1> SUFFICES ASSUME Init PROVE Account
  OBVIOUS
<1>1. todo = <<>> /\ Left(<<>>) = {} /\ Course(<<>>) /\ op = "none" /\ touched = {} /\ seen = None
  BY DEF Init, Left, Course
<1>2. QED
  BY <1>1 DEF Account, Placed, Replaced, Owed, At, Idle, Recreates

-----------------------------------------------------------------------------
(***************************************************************************)
(* Types of the state that the order of the steps does not depend on.      *)
(***************************************************************************)

LEMMA InitTypes == Init => ContainerTypeOK
<1> SUFFICES ASSUME Init PROVE ContainerTypeOK
  OBVIOUS
<1>1. trouble \in 0..MaxTrouble
  BY ContainerAssumption DEF Init
<1>2. QED
  BY <1>1, ContainerAssumption DEF Init, ContainerTypeOK, UnitStates

\* The steps of the module.
LEMMA TypesModule ==
  ASSUME Inv, Account, ContainerTypeOK, ModuleStep, Types'
  PROVE  ContainerTypeOK'
<1> USE DEF Fixed, World
<1>1. UNCHANGED <<engine, op, trouble>> /\ quiet' \in BOOLEAN /\ changed' \in BOOLEAN
  BY DEF ModuleStep, compare_container, ensure_image, pull_image, recreate_or_restart_container,
     fit_container, create_container_volumes, create_container, create_unit_file, run_container, Enqueue, wait_for_unit,
     engine_start, engine_stop, wait_container, return_code, stop_container, remove_unit_file,
     remove_container, stop_and_remove_container, restart_container, create_volume,
     remove_volume, remove_image, Look, Report, ContainerTypeOK
<1>2. \/ UNCHANGED unit
      \/ create_unit_file \/ remove_unit_file \/ Enqueue
  BY DEF ModuleStep, compare_container, ensure_image, pull_image, recreate_or_restart_container,
     fit_container, create_container_volumes, create_container, run_container, wait_for_unit,
     engine_start, engine_stop, wait_container, return_code, stop_container,
     remove_container, stop_and_remove_container, restart_container, create_volume,
     remove_volume, remove_image, Look
<1>3. /\ unit'.file = None \/ unit'.file \in UnitFiles
      /\ unit'.loaded = None \/ unit'.loaded \in UnitFiles
      /\ unit'.sub \in UnitStates /\ unit'.job \in Jobs \cup {None}
      /\ unit'.sub # "dead" \/ unit'.job # None => unit'.loaded # None
  <2>1. unit = [file |-> unit.file, loaded |-> unit.loaded, sub |-> unit.sub, job |-> unit.job]
    BY DEF Inv, Types
  <2>2. CASE UNCHANGED unit
    BY <2>2 DEF ContainerTypeOK
  <2>3. CASE create_unit_file
    BY <2>1, <2>3, UnitFileIsFile DEF create_unit_file, ContainerTypeOK, Inv
  <2>4. CASE remove_unit_file
    BY <2>1, <2>4 DEF remove_unit_file, ContainerTypeOK
  <2>5. CASE Enqueue
    <3>1. PICK j \in Jobs : /\ At(j)
                            /\ unit' = [unit EXCEPT !.job = j, !.loaded = IF @ = None THEN unit.file ELSE @]
      BY <2>5 DEF Enqueue
    <3>2. unit.file # None
      BY <3>1 DEF Account, Placed
    <3>3. QED
      BY <2>1, <3>1, <3>2 DEF ContainerTypeOK
  <2>6. QED
    BY <1>2, <2>2, <2>3, <2>4, <2>5
<1>4. QED
  BY <1>1, <1>3 DEF ContainerTypeOK, Types

\* systemd loads no file and moves within its states.
LEMMA TypesOutside ==
  ASSUME Inv, ContainerTypeOK, Types',
         \/ Systemd \/ Unload \/ StartLimitHit \/ ContainerExits \/ ImagePublished
         \/ RegistryFails \/ ConfigChanges \/ CallFails \/ UNCHANGED vars
         \/ \E c \in Calls : Begin(c[1], c[2])
  PROVE  ContainerTypeOK'
<1>0. unit = [file |-> unit.file, loaded |-> unit.loaded, sub |-> unit.sub, job |-> unit.job]
  BY DEF Inv, Types
<1>1. CASE Systemd \/ Unload \/ StartLimitHit
  <2>1. CASE Systemd \/ Unload
    <3>1. UNCHANGED <<engine, op, changed, quiet, trouble>>
      BY <2>1 DEF Systemd, Unload, StopJob, StartJob, RestartJob, ExecStarts, ExecEnds, AutoRestart,
             Outside, module
    <3>2. CASE StopJob
      <4>1. \/ \E s \in {"dead", "failed"} : unit' = [unit EXCEPT !.job = None, !.sub = s]
            \/ unit' = [unit EXCEPT !.job = None]
        BY <3>2 DEF StopJob
      <4>2. unit.loaded # None
        <5>1. unit.job = "StopUnit" /\ "StopUnit" \in Jobs
          BY <3>2 DEF StopJob, Jobs
        <5>2. QED
          BY <5>1, ContainerAssumption DEF ContainerTypeOK
      <4>3. QED
        BY <1>0, <3>1, <4>1, <4>2 DEF ContainerTypeOK, UnitStates, Types
    <3>3. CASE StartJob \/ RestartJob
      <4>1. \E s \in {"running", "exec"} : unit' = [unit EXCEPT !.job = None, !.sub = s]
        BY <1>0, <3>3 DEF StartJob, RestartJob
      <4>2. unit.loaded # None
        <5>1. unit.job \in Jobs
          BY <3>3 DEF StartJob, RestartJob, Jobs
        <5>2. QED
          BY <5>1, ContainerAssumption DEF ContainerTypeOK
      <4>3. QED
        BY <1>0, <3>1, <4>1, <4>2 DEF ContainerTypeOK, UnitStates, Types
    <3>4. CASE ExecStarts \/ AutoRestart \/ Unload
      BY <1>0, <3>1, <3>4 DEF ExecStarts, AutoRestart, Unload, ContainerTypeOK, UnitStates, Types
    <3>5. CASE ExecEnds
      <4>1. \E s \in {"auto-restart", "dead", "failed"} : unit' = [unit EXCEPT !.sub = s]
        BY <3>5 DEF ExecEnds, Ended
      <4>2. unit.loaded # None
        BY <3>5 DEF ExecEnds, ContainerTypeOK
      <4>3. QED
        BY <1>0, <3>1, <4>1, <4>2 DEF ContainerTypeOK, UnitStates, Types
    <3>6. QED
      BY <2>1, <3>2, <3>3, <3>4, <3>5 DEF Systemd
  <2>2. CASE StartLimitHit
    <3>1. UNCHANGED <<engine, op, changed>> /\ quiet' = FALSE
          /\ trouble < MaxTrouble /\ trouble' = trouble + 1
      BY <2>2 DEF StartLimitHit, Disturb, Outside, module
    <3>2. trouble' \in 0..MaxTrouble
      BY <3>1, ContainerAssumption DEF ContainerTypeOK
    <3>3. QED
      BY <1>0, <2>2, <3>1, <3>2 DEF StartLimitHit, ContainerTypeOK, UnitStates, Types
  <2>3. QED
    BY <1>1, <2>1, <2>2
<1>2. CASE ContainerExits \/ ImagePublished \/ RegistryFails \/ ConfigChanges \/ CallFails
           \/ UNCHANGED vars
  <2>1. /\ UNCHANGED <<engine, op, changed, unit>> /\ quiet' \in BOOLEAN
        /\ trouble' = trouble \/ (trouble < MaxTrouble /\ trouble' = trouble + 1)
    BY <1>2 DEF ContainerExits, ImagePublished, RegistryFails, ConfigChanges, CallFails, vars,
           Outside, module, Disturb, ContainerTypeOK
  <2>2. trouble' \in 0..MaxTrouble
    BY <2>1, ContainerAssumption DEF ContainerTypeOK
  <2>3. QED
    BY <2>1, <2>2 DEF ContainerTypeOK, Types
<1>3. CASE \E c \in Calls : Begin(c[1], c[2])
  <2>1. PICK c \in Calls : Begin(c[1], c[2])
    BY <1>3
  <2>2. c[1] \in DOMAIN Program
    BY ContainerAssumption
  <2>3. QED
    BY <2>1, <2>2 DEF Begin, ContainerTypeOK, Types
<1>4. QED
  BY <1>1, <1>2, <1>3

-----------------------------------------------------------------------------

FullInv == Inv /\ Account /\ ContainerTypeOK

LEMMA InitFull == Init => FullInv
BY InitInv, InitAccount, InitTypes DEF FullInv

LEMMA FullStep == FullInv /\ [Next]_vars => FullInv'
<1> SUFFICES ASSUME FullInv, [Next]_vars PROVE FullInv'
  OBVIOUS
<1>1. Inv /\ Account /\ ContainerTypeOK /\ Inv' /\ Types'
  <2>1. Inv'
    BY InvStep DEF FullInv
  <2>2. QED
    BY <2>1 DEF FullInv, Inv
<1>2. CASE ModuleStep
  <2>1. engine \in {"docker", "podman"}
    BY <1>1, EnginesAssumption DEF ContainerTypeOK
  <2>2. Account'
    BY <1>1, <1>2, <2>1, AccountLooking, AccountMoving, AccountPulling, AccountDeciding,
       AccountFitting, AccountCreating, AccountVolumes, AccountRemoving DEF ModuleStep
  <2>3. QED
    BY <1>1, <1>2, <2>2, TypesModule DEF FullInv
<1>3. CASE \E c \in Calls : Begin(c[1], c[2])
  BY <1>1, <1>3, AccountBeginning, TypesOutside DEF FullInv
<1>4. CASE \/ Systemd \/ Unload \/ StartLimitHit \/ ContainerExits \/ ImagePublished
           \/ RegistryFails \/ ConfigChanges \/ CallFails \/ UNCHANGED vars
  BY <1>1, <1>4, AccountOutside, TypesOutside DEF FullInv
<1>5. QED
  BY <1>2, <1>3, <1>4 DEF Next

\* The container, its unit, its image and the position of the module keep their
\* types, and a unit that systemd runs or has a job for is loaded: no job is asked
\* for before the unit file is written.
THEOREM ContainerTypeCorrect == Spec => []ContainerTypeOK
<1>1. FullInv => ContainerTypeOK
  BY DEF FullInv
<1>2. QED
  BY <1>1, InitFull, FullStep, PTL DEF Spec

\* An operation of kolla_container that succeeds and reports no change has changed
\* nothing, whatever fails and in whatever order the engine and systemd move: but
\* for the container that the Podman worker removed without a word.
THEOREM NoChangeIsTrue == Spec => []UnchangedMeansUntouched
<1>1. FullInv => UnchangedMeansUntouched
  <2> SUFFICES ASSUME FullInv, res = "ok", ~changed, touched # {}
               PROVE  engine = "podman" /\ cont = None /\ op \in Removals
    BY DEF UnchangedMeansUntouched
  <2>1. todo = <<>>
    BY DEF FullInv, Inv, Ready
  <2>2. Left(todo) = {}
    BY <2>1 DEF Left
  <2>3. QED
    BY <2>1, <2>2 DEF FullInv, Account, Owed, WillReport, At, Idle
<1>2. QED
  BY <1>1, InitFull, FullStep, PTL DEF Spec

-----------------------------------------------------------------------------
(***************************************************************************)
(* A container that its unit runs stays down when the unit is stopped.      *)
(***************************************************************************)

\* The container is up only while its unit is.
UpByUnit == RunsByUnit /\ Up => unit.sub = "running"

\* The steps of stop_container that are left.
StopOrder ==
    op = "stop_container" =>
      \/ todo = <<"stop">> /\ ~changed
      \/ todo \in {<<"engine_stop">>, <<"unit", "StopUnit", "await_dead">>,
                   <<"StopUnit", "await_dead">>, <<"await_dead">>, <<>>}

\* The order to stop is given, or has been carried out.
Stopping == \/ unit.job = "StopUnit"
            \/ unit.job = None /\ ~Up /\ unit.sub \in {"dead", "failed"}

StopEffect ==
    /\ op = "stop_container" /\ RunsByUnit /\ changed /\ res \in {"none", "ok"} /\ unit.file # None
    /\ todo \notin {<<"unit", "StopUnit", "await_dead">>, <<"StopUnit", "await_dead">>}
    => Stopping

StopInv == UpByUnit /\ StopOrder /\ StopEffect

\* All requests for the service are alike in this.
LEMMA RunsByUnitStays ==
  ASSUME Inv, [Next]_vars
  PROVE  RunsByUnit' = RunsByUnit
<1>1. CASE \E c \in Calls : Begin(c[1], c[2])
  BY <1>1 DEF Begin, RunsByUnit, p
<1>2. CASE UNCHANGED req
  BY <1>2 DEF RunsByUnit, p
<1>3. (\E c \in Calls : Begin(c[1], c[2])) \/ UNCHANGED req
  BY DEF Next, vars, ModuleStep, compare_container, ensure_image, pull_image,
       recreate_or_restart_container, fit_container, create_container_volumes, create_container, create_unit_file,
       run_container, Enqueue, wait_for_unit, engine_start, engine_stop, wait_container,
       return_code, stop_container, remove_unit_file, remove_container,
       stop_and_remove_container, restart_container, create_volume, remove_volume, remove_image,
       Look, Fixed, Systemd, Unload, StartLimitHit, StopJob, StartJob, RestartJob, ExecStarts,
       ExecEnds, AutoRestart, Outside, module, ContainerExits, ImagePublished, RegistryFails,
       ConfigChanges, CallFails
<1>4. QED
  BY <1>1, <1>2, <1>3

\* Only systemd's own start brings the container up.
LEMMA UpModule ==
  ASSUME FullInv, UpByUnit, ModuleStep, RunsByUnit
  PROVE  /\ Up' => Up
         /\ unit'.sub = unit.sub
<1>1. unit = [file |-> unit.file, loaded |-> unit.loaded, sub |-> unit.sub, job |-> unit.job]
  BY DEF FullInv, Inv, Types
<1>2. unit'.sub = unit.sub
  <2>1. UNCHANGED unit \/ create_unit_file \/ remove_unit_file \/ Enqueue
    BY DEF ModuleStep, compare_container, ensure_image, pull_image, recreate_or_restart_container,
       fit_container, create_container_volumes, create_container, run_container, wait_for_unit, World,
       engine_start, engine_stop, wait_container, return_code, stop_container,
       remove_container, stop_and_remove_container, restart_container, create_volume,
       remove_volume, remove_image, Look
  <2>2. QED
    BY <1>1, <2>1 DEF create_unit_file, remove_unit_file, Enqueue
<1>3. ~engine_start
  <2>1. SUFFICES ASSUME engine_start PROVE FALSE
    OBVIOUS
  <2>2. todo # <<>> /\ todo[1] = "engine_start" /\ todo \in Seq(Steps)
    BY <2>1 DEF engine_start, At, Idle, FullInv, Inv, Chain
  <2>3. "engine_start" \in Left(todo)
    <3>1. 1 \in 1..Len(todo)
      BY <2>2, EmptySeq
    <3>2. QED
      BY <2>2, <3>1 DEF Left
  <2>4. OneShot /\ req \in DOMAIN Requests
    BY <2>3 DEF FullInv, Account, Placed, Inv, Types
  <2>5. QED
    BY <2>4 DEF OneShot, RunsByUnit, p
<1>4. UNCHANGED cont \/ create_container \/ engine_stop \/ remove_container
  BY <1>3 DEF ModuleStep, compare_container, ensure_image, pull_image, recreate_or_restart_container,
       fit_container, create_container_volumes, create_unit_file, run_container, Enqueue,
       wait_for_unit, World,
       wait_container, return_code, stop_container, remove_unit_file,
       stop_and_remove_container, restart_container, create_volume,
       remove_volume, remove_image, Look
<1>5. CASE UNCHANGED cont
  BY <1>2, <1>5 DEF Up
<1>6. CASE create_container
  BY <1>2, <1>6 DEF create_container, Up
<1>7. CASE remove_container
  BY <1>2, <1>7 DEF remove_container, Up
<1>8. CASE engine_stop
  <2>1. cont \in Containers
    BY <1>8 DEF engine_stop, FullInv, Inv, Types
  <2>2. cont # None /\ cont'.status # "running"
    BY <1>8, <2>1 DEF engine_stop, Containers
  <2>3. QED
    BY <1>2, <2>2 DEF Up
<1>9. QED
  BY <1>2, <1>4, <1>5, <1>6, <1>7, <1>8

\* systemd and what happens to the container keep it down once it is down.
LEMMA UpSystemd ==
  ASSUME FullInv, UpByUnit, RunsByUnit,
         Systemd \/ Unload \/ StartLimitHit \/ ContainerExits
  PROVE  (Up' => unit'.sub = "running") /\ (Stopping => Stopping')
<1>0. /\ unit = [file |-> unit.file, loaded |-> unit.loaded, sub |-> unit.sub, job |-> unit.job]
      /\ cont = None \/ cont \in Containers
      /\ unit.sub \in UnitStates
      /\ (Up => unit.sub = "running")
  BY DEF FullInv, Inv, Types, ContainerTypeOK, UpByUnit
<1>1. None # "StopUnit" /\ None # "StartUnit" /\ None # "RestartUnit"
  BY ContainerAssumption DEF Jobs
<1> USE DEF Stopping
<1>2. CASE StopJob
  <2>1. CASE unit.sub \in {"exec", "running", "auto-restart"}
    <3>1. PICK s \in {"dead", "failed"} : unit' = [unit EXCEPT !.job = None, !.sub = s]
      BY <1>2, <2>1 DEF StopJob
    <3>2. cont' = IF Up /\ unit.sub # "auto-restart" THEN [cont EXCEPT !.status = "exited"] ELSE cont
      BY <1>2, <2>1 DEF StopJob
    <3>3. ~Up'
      <4>1. CASE Up
        <5>1. cont # None /\ cont \in Containers /\ cont' = [cont EXCEPT !.status = "exited"]
          BY <1>0, <3>2, <4>1 DEF Up
        <5>2. cont'.status = "exited"
          BY <5>1 DEF Containers
        <5>3. QED
          BY <5>2 DEF Up
      <4>2. CASE ~Up
        BY <3>2, <4>2 DEF Up
      <4>3. QED
        BY <4>1, <4>2
    <3>4. unit'.job = None /\ unit'.sub \in {"dead", "failed"}
      BY <1>0, <3>1
    <3>5. QED
      BY <3>3, <3>4
  <2>2. CASE unit.sub \notin {"exec", "running", "auto-restart"}
    <3>1. unit' = [unit EXCEPT !.job = None] /\ UNCHANGED cont
      BY <1>2, <2>2 DEF StopJob
    <3>2. unit.sub \in {"dead", "failed"} /\ ~Up
      BY <1>0, <2>2 DEF UnitStates
    <3>3. unit'.job = None /\ unit'.sub = unit.sub /\ ~Up'
      BY <1>0, <3>1, <3>2 DEF Up
    <3>4. QED
      BY <3>2, <3>3
  <2>3. QED
    BY <2>1, <2>2
<1>3. CASE StartJob
  <2>1. UNCHANGED cont /\ unit'.sub = (IF unit.sub = "running" THEN unit.sub ELSE "exec")
        /\ unit.job = "StartUnit"
    BY <1>0, <1>3 DEF StartJob
  <2>2. Up' = Up
    BY <2>1 DEF Up
  <2>3. QED
    BY <1>0, <1>1, <2>1, <2>2
<1>4. CASE RestartJob
  <2>1. /\ cont' = IF Up /\ unit.sub \in {"exec", "running"} THEN [cont EXCEPT !.status = "exited"] ELSE cont
        /\ unit.job = "RestartUnit"
    BY <1>0, <1>4 DEF RestartJob
  <2>2. ~Up'
    <3>1. CASE Up
      <4>1. cont # None /\ cont \in Containers /\ cont' = [cont EXCEPT !.status = "exited"]
        BY <1>0, <2>1, <3>1 DEF Up
      <4>2. cont'.status = "exited"
        BY <4>1 DEF Containers
      <4>3. QED
        BY <4>2 DEF Up
    <3>2. CASE ~Up
      BY <2>1, <3>2 DEF Up
    <3>3. QED
      BY <3>1, <3>2
  <2>3. QED
    BY <1>1, <2>1, <2>2
<1>5. CASE ExecStarts
  <2>1. unit.sub = "exec" /\ unit'.sub = "running" /\ unit'.job = unit.job
    BY <1>0, <1>5 DEF ExecStarts
  <2>2. QED
    BY <2>1
<1>6. CASE ExecEnds
  <2>1. UNCHANGED cont /\ ~Up /\ unit.sub \in {"exec", "running"}
    BY <1>0, <1>6 DEF ExecEnds, Up
  <2>2. \E s \in {"auto-restart", "dead", "failed"} : unit' = [unit EXCEPT !.sub = s]
    BY <1>6 DEF ExecEnds, Ended
  <2>3. unit'.job = unit.job /\ ~Up'
    BY <1>0, <2>1, <2>2 DEF Up
  <2>4. QED
    BY <2>1, <2>3
<1>7. CASE AutoRestart \/ StartLimitHit
  <2>1. UNCHANGED cont /\ unit.sub = "auto-restart" /\ unit'.job = unit.job
    BY <1>0, <1>7 DEF AutoRestart, StartLimitHit
  <2>2. ~Up'
    BY <1>0, <2>1 DEF Up
  <2>3. QED
    BY <2>1, <2>2
<1>8. CASE Unload
  <2>1. UNCHANGED cont /\ unit'.sub = unit.sub /\ unit'.job = unit.job
    BY <1>0, <1>8 DEF Unload
  <2>2. Up' = Up
    BY <2>1 DEF Up
  <2>3. QED
    BY <1>0, <2>1, <2>2
<1>9. CASE ContainerExits
  <2>1. Up /\ cont' = [cont EXCEPT !.status = "exited"] /\ UNCHANGED unit
    BY <1>9 DEF ContainerExits
  <2>2. cont \in Containers
    BY <1>0, <2>1 DEF Up
  <2>3. ~Up'
    BY <2>1, <2>2 DEF Up, Containers
  <2>4. QED
    BY <2>1, <2>3
<1>10. QED
  BY <1>2, <1>3, <1>4, <1>5, <1>6, <1>7, <1>8, <1>9 DEF Systemd
LEMMA StopTuples ==
  /\ Head(<<"stop">>) = "stop" /\ Tail(<<"stop">>) = <<>>
  /\ Head(<<"engine_stop">>) = "engine_stop" /\ Tail(<<"engine_stop">>) = <<>>
  /\ Head(<<"await_dead">>) = "await_dead" /\ Tail(<<"await_dead">>) = <<>>
  /\ Head(<<"StopUnit", "await_dead">>) = "StopUnit"
  /\ Tail(<<"StopUnit", "await_dead">>) = <<"await_dead">>
  /\ Head(<<"unit", "StopUnit", "await_dead">>) = "unit"
  /\ Tail(<<"unit", "StopUnit", "await_dead">>) = <<"StopUnit", "await_dead">>
  /\ <<"engine_stop">> # <<>> /\ <<"stop">> # <<>> /\ <<"await_dead">> # <<>>
  /\ <<"StopUnit", "await_dead">> # <<>> /\ <<"unit", "StopUnit", "await_dead">> # <<>>
  /\ <<"engine_stop">> # <<"StopUnit", "await_dead">>
  /\ <<"engine_stop">> # <<"unit", "StopUnit", "await_dead">>
OBVIOUS
\* Which step of stop_container is next.
LEMMA StopSwitch ==
  ASSUME op = "stop_container", StopOrder, ModuleStep
  PROVE  \/ todo = <<"stop">> /\ ~changed /\ stop_container
         \/ todo = <<"engine_stop">> /\ engine_stop
         \/ todo = <<"unit", "StopUnit", "await_dead">> /\ create_unit_file
         \/ todo = <<"StopUnit", "await_dead">> /\ Enqueue
         \/ todo = <<"await_dead">> /\ wait_for_unit
<1>1. /\ todo # <<>>
      /\ Head(todo) \notin {"stop", "engine_stop", "unit", "StopUnit", "await_dead"}
           \/ \/ Head(todo) = "stop" /\ stop_container
              \/ Head(todo) = "engine_stop" /\ engine_stop
              \/ Head(todo) = "unit" /\ create_unit_file
              \/ Head(todo) = "StopUnit" /\ Enqueue
              \/ Head(todo) = "await_dead" /\ wait_for_unit
  BY DEF ModuleStep, compare_container, ensure_image, pull_image, recreate_or_restart_container,
       fit_container, create_container_volumes, create_container, create_unit_file, run_container, Enqueue, wait_for_unit,
       engine_start, engine_stop, wait_container, return_code, stop_container, remove_unit_file,
       remove_container, stop_and_remove_container, restart_container, create_volume,
       remove_volume, remove_image, Look, At, Idle, Jobs
<1>2. CASE todo = <<"stop">> /\ ~changed
  BY <1>1, <1>2, StopTuples
<1>3. CASE todo = <<"engine_stop">>
  BY <1>1, <1>3, StopTuples
<1>4. CASE todo = <<"unit", "StopUnit", "await_dead">>
  BY <1>1, <1>4, StopTuples
<1>5. CASE todo = <<"StopUnit", "await_dead">>
  BY <1>1, <1>5, StopTuples
<1>6. CASE todo = <<"await_dead">>
  BY <1>1, <1>6, StopTuples
<1>7. QED
  BY <1>1, <1>2, <1>3, <1>4, <1>5, <1>6 DEF StopOrder

\* The steps of stop_container keep their order, and end with the order to stop.
LEMMA StopModule ==
  ASSUME FullInv, StopInv, op = "stop_container", ModuleStep
  PROVE  StopOrder' /\ (RunsByUnit => StopEffect')
<1>0. /\ unit = [file |-> unit.file, loaded |-> unit.loaded, sub |-> unit.sub, job |-> unit.job]
      /\ cont = None \/ cont \in Containers
  BY DEF FullInv, Inv, Types
<1>1. StopOrder /\ StopEffect /\ (todo # <<>> => res = "none")
  BY DEF StopInv, FullInv, Inv, Ready
<1>2. CASE todo = <<"stop">> /\ ~changed /\ stop_container
  <2>1. UNCHANGED unit /\ op' = op
    BY <1>2 DEF stop_container, Look, Fixed, World
  <2>2. CASE cont = None
    <3>1. (Then(<<>>) \/ todo' = <<>>) /\ changed' = changed
      BY <1>2, <2>2 DEF stop_container, Look, Fail
    <3>2. Then(<<>>) => todo' = <<>>
      BY <1>2, StopTuples DEF Then
    <3>3. QED
      BY <1>2, <3>1, <3>2 DEF StopOrder, StopEffect
  <2>3. CASE cont # None /\ cont.status = "exited"
    <3>1. Then(<<>>) /\ changed' = (changed \/ FALSE)
      BY <1>2, <2>3 DEF stop_container, Look, Report
    <3>2. todo' = <<>>
      BY <1>2, <3>1, StopTuples DEF Then
    <3>3. QED
      BY <1>2, <3>1, <3>2 DEF StopOrder, StopEffect
  <2>4. CASE cont # None /\ cont.status # "exited"
    <3>1. todo' = StopSteps \o <<>>
      BY <1>2, <2>4, StopTuples DEF stop_container, Look, Then
    <3>2. StopSteps \in {<<"engine_stop">>, <<"StopUnit", "await_dead">>,
                         <<"unit", "StopUnit", "await_dead">>}
      BY DEF StopSteps, DockerStop, PodmanStop
    <3>3. todo' = StopSteps
      BY <3>1, <3>2
    <3>4. RunsByUnit /\ StopSteps = <<"engine_stop">> => unit.file = None
      <4>1. req \in DOMAIN Requests
        BY DEF FullInv, Inv, Types
      <4>2. RunsByUnit => ~OneShot
        BY <4>1 DEF RunsByUnit, OneShot, p
      <4>3. QED
        BY <4>2, StopTuples DEF StopSteps, DockerStop, PodmanStop
    <3>5. QED
      BY <2>1, <3>2, <3>3, <3>4 DEF StopOrder, StopEffect
  <2>5. QED
    BY <2>2, <2>3, <2>4
<1>3. CASE todo = <<"engine_stop">> /\ engine_stop
  <2>1. /\ todo' = <<>> /\ UNCHANGED <<unit, changed, op>> /\ cont \in Containers
        /\ cont' = [cont EXCEPT !.status = IF @ = "running" THEN "exited" ELSE @]
    BY <1>0, <1>3, StopTuples DEF engine_stop, Then, Fixed
  <2>2. StopOrder'
    BY <2>1 DEF StopOrder
  <2>3. ASSUME RunsByUnit, StopEffect, changed, unit.file # None PROVE Stopping'
    <3>1. Stopping
      BY <1>1, <1>3, <2>3, StopTuples DEF StopEffect
    <3>2. ~Up'
      BY <2>1 DEF Up, Containers
    <3>3. QED
      BY <2>1, <3>1, <3>2 DEF Stopping
  <2>4. QED
    BY <1>1, <2>1, <2>2, <2>3 DEF StopEffect
<1>4. CASE todo = <<"unit", "StopUnit", "await_dead">> /\ create_unit_file
  <2>1. todo' = <<"StopUnit", "await_dead">>
    BY <1>4, StopTuples DEF create_unit_file, Then
  <2>2. QED
    BY <2>1 DEF StopOrder, StopEffect
<1>5. CASE todo = <<"StopUnit", "await_dead">> /\ Enqueue
  <2>1. todo' = <<"await_dead">>
    BY <1>5, StopTuples DEF Enqueue, Then
  <2>2. unit'.job = "StopUnit"
    BY <1>0, <1>5, StopTuples DEF Enqueue, At
  <2>3. QED
    BY <2>1, <2>2 DEF StopOrder, StopEffect, Stopping
<1>6. CASE todo = <<"await_dead">> /\ wait_for_unit
  <2>1. todo' = <<>> /\ UNCHANGED <<unit, cont, changed, op>>
    BY <1>6, StopTuples DEF wait_for_unit, Then, At, Idle, World, Fixed
  <2>2. Stopping' = Stopping
    BY <2>1 DEF Stopping, Up
  <2>3. todo \notin {<<"unit", "StopUnit", "await_dead">>, <<"StopUnit", "await_dead">>}
    BY <1>6, StopTuples
  <2>4. QED
    BY <1>1, <1>6, <2>1, <2>2, <2>3, StopTuples DEF StopOrder, StopEffect
<1>7. QED
  BY <1>1, <1>2, <1>3, <1>4, <1>5, <1>6, StopSwitch
LEMMA StopStep == FullInv /\ StopInv /\ [Next]_vars => StopInv'
<1> SUFFICES ASSUME FullInv, StopInv, [Next]_vars PROVE StopInv'
  OBVIOUS
<1>1. RunsByUnit' = RunsByUnit
  BY RunsByUnitStays DEF FullInv
<1>2. UpByUnit /\ StopOrder /\ StopEffect
  BY DEF StopInv
<1>3. CASE ModuleStep
  <2>1. UpByUnit'
    <3> SUFFICES ASSUME RunsByUnit, Up' PROVE unit'.sub = "running"
      BY <1>1 DEF UpByUnit
    <3>1. QED
      BY <1>2, <1>3, UpModule DEF UpByUnit
  <2>2. op' = op
    BY <1>3 DEF ModuleStep, compare_container, ensure_image, pull_image,
       recreate_or_restart_container, fit_container, create_container_volumes, create_container, create_unit_file,
       run_container, Enqueue, wait_for_unit, engine_start, engine_stop, wait_container,
       return_code, stop_container, remove_unit_file, remove_container,
       stop_and_remove_container, restart_container, create_volume, remove_volume, remove_image,
       Look, Fixed
  <2>3. CASE op = "stop_container"
    <3>1. StopOrder' /\ (RunsByUnit => StopEffect')
      BY <1>3, <2>3, StopModule
    <3>2. ~RunsByUnit => StopEffect'
      BY <1>1 DEF StopEffect
    <3>3. QED
      BY <2>1, <3>1, <3>2 DEF StopInv
  <2>4. CASE op # "stop_container"
    BY <2>1, <2>2, <2>4 DEF StopInv, StopOrder, StopEffect
  <2>5. QED
    BY <2>3, <2>4
<1>4. CASE \E c \in Calls : Begin(c[1], c[2])
  <2>1. PICK c \in Calls : Begin(c[1], c[2])
    BY <1>4
  <2>2. op' = c[1] /\ todo' = Program[c[1]] /\ ~changed' /\ UNCHANGED <<cont, unit>>
    BY <2>1 DEF Begin
  <2>3. UpByUnit'
    BY <1>1, <1>2, <2>2 DEF UpByUnit, Up
  <2>4. StopOrder'
    BY <2>2 DEF StopOrder, Program
  <2>5. StopEffect'
    BY <2>2 DEF StopEffect
  <2>6. QED
    BY <2>3, <2>4, <2>5 DEF StopInv
<1>5. CASE Systemd \/ Unload \/ StartLimitHit \/ ContainerExits
  <2>1. UNCHANGED <<op, todo, changed, res>> /\ unit'.file = unit.file
    BY <1>5 DEF FullInv, Inv, Types, Systemd, Unload, StartLimitHit, StopJob, StartJob, RestartJob,
         ExecStarts, ExecEnds, Ended, AutoRestart, Outside, module, ContainerExits
  <2>2. RunsByUnit => (Up' => unit'.sub = "running") /\ (Stopping => Stopping')
    BY <1>2, <1>5, UpSystemd
  <2>3. UpByUnit'
    BY <1>1, <2>2 DEF UpByUnit
  <2>4. StopOrder'
    BY <1>2, <2>1 DEF StopOrder
  <2>5. StopEffect'
    BY <1>1, <1>2, <2>1, <2>2 DEF StopEffect
  <2>6. QED
    BY <2>3, <2>4, <2>5 DEF StopInv
<1>6. CASE ImagePublished \/ RegistryFails \/ ConfigChanges \/ UNCHANGED vars
  <2>1. UNCHANGED <<op, todo, changed, res, cont, unit>>
    BY <1>6 DEF ImagePublished, RegistryFails, ConfigChanges, vars, module
  <2>2. UpByUnit'
    BY <1>1, <1>2, <2>1 DEF UpByUnit, Up
  <2>3. StopOrder'
    BY <1>2, <2>1 DEF StopOrder
  <2>4. Stopping' = Stopping
    BY <2>1 DEF Stopping, Up
  <2>5. StopEffect'
    BY <1>1, <1>2, <2>1, <2>4 DEF StopEffect
  <2>6. QED
    BY <2>2, <2>3, <2>5 DEF StopInv
<1>7. CASE CallFails
  <2>1. todo' = <<>> /\ res' = "error" /\ UNCHANGED <<op, changed, cont, unit>>
    BY <1>7 DEF CallFails, Fail
  <2>2. UpByUnit'
    BY <1>1, <1>2, <2>1 DEF UpByUnit, Up
  <2>3. StopOrder' /\ StopEffect'
    BY <2>1 DEF StopOrder, StopEffect
  <2>4. QED
    BY <2>2, <2>3 DEF StopInv
<1>8. QED
  BY <1>3, <1>4, <1>5, <1>6, <1>7 DEF Next

\* Once stop_container has reported a stop that went through the unit, systemd has the
\* order to stop until it has carried it out, and then neither it nor the container
\* starts again: whatever fails, and whichever jobs were waiting before.
THEOREM StopsHold == Spec => []StopHolds
<1>1. Init => StopInv
  BY DEF Init, StopInv, UpByUnit, StopOrder, StopEffect, Up
<1>2. FullInv /\ StopInv => StopHolds
  <2> SUFFICES ASSUME FullInv, StopInv, op = "stop_container", res = "ok", changed, RunsByUnit,
                      unit.file # None, unit.job = None
               PROVE  ~Up /\ unit.sub \in {"dead", "failed"}
    BY DEF StopHolds
  <2>1. todo = <<>>
    BY DEF FullInv, Inv, Ready
  <2>2. Stopping
    BY <2>1, StopTuples DEF StopInv, StopEffect
  <2>3. None # "StopUnit"
    BY ContainerAssumption DEF Jobs
  <2>4. QED
    BY <2>2, <2>3 DEF Stopping
<1>3. FullInv /\ StopInv /\ [Next]_vars => FullInv' /\ StopInv'
  BY FullStep, StopStep
<1>4. QED
  BY <1>1, <1>2, <1>3, InitFull, PTL DEF Spec
-----------------------------------------------------------------------------
(***************************************************************************)
(* A recreation ends with a container that fits the request.               *)
(***************************************************************************)

\* What is left of a recreation that only restarts, and of one that has created.
RestartLeft == {<<"restart">>, <<"unit", "RestartUnit", "await_running">>,
                <<"RestartUnit", "await_running">>, <<"await_running">>, <<>>}
StartLeft == {<<"unit", "run", "wait">>, <<"run", "wait">>,
              <<"unit", "StartUnit", "await_running", "wait">>,
              <<"StartUnit", "await_running", "wait">>, <<"await_running", "wait">>,
              <<"wait">>, <<>>}

\* A recreation of a service, undisturbed and without an error.
Recreation == Recreates /\ quiet /\ RunsByUnit /\ p.detach /\ res \in {"none", "ok"}

Match == cont # None /\ ~check_container_differs(engine, p, Info, image, p.state)

\* The container fits and is restarted for its configuration.
Kept ==
    /\ seen = None /\ todo \in RestartLeft /\ Strategy = "COPY_ALWAYS" /\ Match
    /\ todo \notin {<<"restart">>, <<"unit", "RestartUnit", "await_running">>}
         => unit.file = generate_unit_file
    /\ \/ todo \in RestartLeft \ {<<"await_running">>, <<>>}
       \/ unit.job = "RestartUnit" \/ (Up => cont.config = config)

\* The container is new, and takes over the configuration when it starts.
Renewed ==
    /\ seen = "new" /\ todo \in StartLeft
    /\ cont # None /\ cont.req = req /\ cont.image = image
    /\ cont.config \in {None, config} /\ (Up => cont.config = config)
    /\ todo # <<"unit", "run", "wait">> => unit.file = generate_unit_file

RecreateInv ==
    Recreation => \/ todo = <<"decide">>
                  \/ seen = None /\ "create" \in Left(todo)
                  \/ Kept
                  \/ Renewed

\* The sequences of steps that steps call for.
LEMMA CalledSteps ==
  /\ \A a \in Steps : <<a>> \in Seq(Steps)
  /\ <<>> \in Seq(Steps) /\ StartSteps \in Seq(Steps) /\ RecreateSteps \in Seq(Steps)
  /\ StopSteps \in Seq(Steps) /\ PodmanRestart \in Seq(Steps) /\ DockerRestart \in Seq(Steps)
  /\ RemoveSteps \in Seq(Steps) /\ <<"stop">> \o RemoveSteps \in Seq(Steps)
  /\ <<"unit", "StartUnit", "await_running">> \in Seq(Steps)
<1>1. \A a \in Steps : <<a>> \in Seq(Steps)
  OBVIOUS
<1>2. <<>> \in Seq(Steps) /\ StartSteps \in Seq(Steps) /\ RecreateSteps \in Seq(Steps)
  BY StartingCourse, RecreatingCourse
<1>3. RemoveSteps \in Seq(Steps) /\ <<"stop">> \in Seq(Steps)
  BY DEF Steps, RemoveSteps
<1>4. <<"stop">> \o RemoveSteps \in Seq(Steps)
  BY <1>3, ConcatProperties
<1>5. StopSteps \in Seq(Steps)
  <2>1. /\ <<"engine_stop">> \in Seq(Steps) /\ <<"StopUnit", "await_dead">> \in Seq(Steps)
        /\ <<"unit", "StopUnit", "await_dead">> \in Seq(Steps)
    BY DEF Steps
  <2>2. QED
    BY <2>1 DEF StopSteps, DockerStop, PodmanStop
<1>6. PodmanRestart \in Seq(Steps) /\ DockerRestart \in Seq(Steps)
  <2>1. /\ <<"engine_stop", "engine_start">> \in Seq(Steps)
        /\ <<"unit", "RestartUnit", "await_running">> \in Seq(Steps)
    BY DEF Steps
  <2>2. QED
    BY <2>1 DEF DockerRestart, PodmanRestart
<1>7. <<"unit", "StartUnit", "await_running">> \in Seq(Steps)
  BY DEF Steps
<1>8. QED
  BY <1>1, <1>2, <1>3, <1>4, <1>5, <1>6, <1>7

\* Every step of the module calls for steps or reports a failure.
LEMMA ModuleCalls ==
  ASSUME ModuleStep
  PROVE  \/ \E m \in Seq(Steps) : Then(m)
         \/ todo' = <<>> /\ res' \notin {"none", "ok"}
         \/ create_container_volumes
<1> DEFINE Called == \E m \in Seq(Steps) : Then(m)
           Failed == todo' = <<>> /\ res' \notin {"none", "ok"}
<1> SUFFICES ASSUME ~create_container_volumes PROVE Called \/ Failed
  OBVIOUS
<1>1. <<>> \in Seq(Steps) /\ \A a \in Steps : <<a>> \in Seq(Steps)
  BY CalledSteps
<1>2. Then(<<>>) => Called
  BY <1>1
<1>3. \A why \in {"no image", "timed out", "return code", "no container", "in use"} :
         Fail(why) => Failed
  BY DEF Fail
<1> HIDE DEF Called, Failed
<1>4. CASE compare_container \/ create_unit_file \/ Enqueue \/ engine_start \/ engine_stop
           \/ remove_unit_file \/ remove_container \/ create_volume \/ wait_for_unit
           \/ return_code \/ remove_volume \/ remove_image \/ pull_image
  <2>1. Then(<<>>) \/ \E why \in {"no image", "timed out", "return code", "no container", "in use"} :
                          Fail(why)
    BY <1>4 DEF compare_container, create_unit_file, Enqueue, engine_start, engine_stop,
         remove_unit_file, remove_container, create_volume, wait_for_unit, return_code,
         remove_volume, remove_image, pull_image, Look
  <2>2. QED
    BY <1>2, <1>3, <2>1 
<1>5. CASE ensure_image
  <2>1. (IF image = None THEN <<"pull">> ELSE <<>>) \in Seq(Steps)
    BY <1>1 DEF Steps
  <2>2. QED
    BY <1>5, <2>1 DEF ensure_image, Look, Called
<1>6. CASE recreate_or_restart_container
  <2>1. <<"restart">> \in Seq(Steps)
    BY <1>1 DEF Steps
  <2>2. QED
    BY <1>1, <1>6, <2>1, CalledSteps DEF recreate_or_restart_container, Look, Called
<1>7. CASE fit_container
  BY <1>1, <1>7, CalledSteps DEF fit_container, Called
<1>8. CASE create_container
  <2>1. <<"unit">> \in Seq(Steps)
    BY <1>1 DEF Steps
  <2>2. \/ Then(<<>>)
        \/ Then(IF engine = "docker" /\ OneShot THEN <<>> ELSE <<"unit">>)
    BY <1>8 DEF create_container
  <2>3. QED
    BY <1>1, <2>1, <2>2 DEF Called
<1>9. CASE run_container
  <2>1. <<"engine_start">> \in Seq(Steps)
    BY <1>1 DEF Steps
  <2>2. QED
    BY <1>1, <1>9, <2>1, CalledSteps DEF run_container, Called
<1>10. CASE wait_container
  <2>1. CASE Look("wait", <<>>)
    BY <1>2, <2>1 DEF Look
  <2>2. ASSUME NEW rc \in {"rc_zero", "rc_error"},
               Look("wait", (IF p.remove_on_exit THEN <<"stop">> \o RemoveSteps ELSE <<>>) \o <<rc>>)
        PROVE  Called
    <3>1. <<rc>> \in Seq(Steps)
      BY <1>1 DEF Steps
    <3>2. (IF p.remove_on_exit THEN <<"stop">> \o RemoveSteps ELSE <<>>) \in Seq(Steps)
      BY CalledSteps
    <3>3. (IF p.remove_on_exit THEN <<"stop">> \o RemoveSteps ELSE <<>>) \o <<rc>> \in Seq(Steps)
      BY <3>1, <3>2, ConcatProperties
    <3>4. QED
      BY <2>2, <3>3 DEF Look, Called
  <2>3. QED
    BY <1>10, <2>1, <2>2 DEF wait_container
<1>11. CASE stop_container
  <2>1. \/ Fail("no container") \/ Then(<<>>)
        \/ Then(IF cont.status = "exited" THEN <<>> ELSE StopSteps)
    BY <1>11 DEF stop_container, Look
  <2>3. (IF cont.status = "exited" THEN <<>> ELSE StopSteps) \in Seq(Steps)
    BY CalledSteps
  <2>2. QED
    BY <1>2, <1>3, <2>1, <2>3 DEF Called
<1>12. CASE stop_and_remove_container
  BY <1>1, <1>12, CalledSteps DEF stop_and_remove_container, Look, Called
<1>13. CASE restart_container
  <2>1. \/ Fail("no container")
        \/ Then(IF engine = "docker" THEN DockerRestart ELSE PodmanRestart)
    BY <1>13 DEF restart_container, Look
  <2>2. (IF engine = "docker" THEN DockerRestart ELSE PodmanRestart) \in Seq(Steps)
    BY CalledSteps
  <2>3. QED
    BY <1>3, <2>1, <2>2 DEF Called
<1>14. QED
  BY <1>4, <1>5, <1>6, <1>7, <1>8, <1>9, <1>10, <1>11, <1>12, <1>13 DEF ModuleStep

\* What no step of the module changes.
LEMMA ModuleFixed ==
  ASSUME ModuleStep
  PROVE  UNCHANGED <<engine, req, op, registry, config>> /\ (quiet' => quiet) /\ todo # <<>>
<1>1. UNCHANGED <<engine, req, op, registry, config>> /\ todo # <<>>
  BY DEF ModuleStep, compare_container, ensure_image, pull_image,
     recreate_or_restart_container, fit_container, create_container_volumes, create_container,
     create_unit_file, run_container, Enqueue, wait_for_unit, engine_start, engine_stop,
     wait_container, return_code, stop_container, remove_unit_file, remove_container,
     stop_and_remove_container, restart_container, create_volume, remove_volume, remove_image,
     Look, Fixed, At, Idle
<1>2. CASE run_container
  BY <1>1, <1>2 DEF run_container
<1>3. CASE ~run_container
  <2>1. UNCHANGED quiet
    BY <1>3 DEF ModuleStep, compare_container, ensure_image, pull_image,
       recreate_or_restart_container, fit_container, create_container_volumes, create_container,
       create_unit_file, Enqueue, wait_for_unit, engine_start, engine_stop, wait_container,
       return_code, stop_container, remove_unit_file, remove_container,
       stop_and_remove_container, restart_container, create_volume, remove_volume, remove_image,
       Look, Fixed
  <2>2. QED
    BY <1>1, <2>1
<1>4. QED
  BY <1>2, <1>3

\* Which steps of a recreation are next.
LEMMA RecreateTuples ==
  /\ Head(<<"decide">>) = "decide" /\ Tail(<<"decide">>) = <<>>
  /\ Head(<<"restart">>) = "restart" /\ Tail(<<"restart">>) = <<>>
  /\ Head(<<"unit", "RestartUnit", "await_running">>) = "unit"
  /\ Tail(<<"unit", "RestartUnit", "await_running">>) = <<"RestartUnit", "await_running">>
  /\ Head(<<"RestartUnit", "await_running">>) = "RestartUnit"
  /\ Tail(<<"RestartUnit", "await_running">>) = <<"await_running">>
  /\ Head(<<"await_running">>) = "await_running" /\ Tail(<<"await_running">>) = <<>>
  /\ Head(<<"create", "run", "wait">>) = "create"
  /\ Tail(<<"create", "run", "wait">>) = <<"run", "wait">>
  /\ Head(<<"unit", "run", "wait">>) = "unit" /\ Tail(<<"unit", "run", "wait">>) = <<"run", "wait">>
  /\ Head(<<"run", "wait">>) = "run" /\ Tail(<<"run", "wait">>) = <<"wait">>
  /\ Head(<<"unit", "StartUnit", "await_running", "wait">>) = "unit"
  /\ Tail(<<"unit", "StartUnit", "await_running", "wait">>) = <<"StartUnit", "await_running", "wait">>
  /\ Head(<<"StartUnit", "await_running", "wait">>) = "StartUnit"
  /\ Tail(<<"StartUnit", "await_running", "wait">>) = <<"await_running", "wait">>
  /\ Head(<<"await_running", "wait">>) = "await_running"
  /\ Tail(<<"await_running", "wait">>) = <<"wait">>
  /\ Head(<<"wait">>) = "wait" /\ Tail(<<"wait">>) = <<>>
OBVIOUS

LEMMA RecreateSequences ==
  /\ <<>> \o <<>> = <<>> /\ <<>> \o <<"wait">> = <<"wait">>
  /\ <<>> \o <<"run", "wait">> = <<"run", "wait">>
  /\ <<>> \o <<"await_running">> = <<"await_running">>
  /\ <<>> \o <<"RestartUnit", "await_running">> = <<"RestartUnit", "await_running">>
  /\ <<>> \o <<"await_running", "wait">> = <<"await_running", "wait">>
  /\ <<>> \o <<"StartUnit", "await_running", "wait">> = <<"StartUnit", "await_running", "wait">>
  /\ <<"unit">> \o <<"run", "wait">> = <<"unit", "run", "wait">>
  /\ <<"restart">> \o <<>> = <<"restart">> /\ PodmanRestart \o <<>> = PodmanRestart
  /\ StartSteps \o <<>> = StartSteps /\ RecreateSteps \o <<>> = RecreateSteps
  /\ <<"unit", "StartUnit", "await_running">> \o <<"wait">>
       = <<"unit", "StartUnit", "await_running", "wait">>
<1>1. \A s \in Seq(Steps) : s \o <<>> = s /\ <<>> \o s = s
  BY ConcatEmptySeq
<1>2. /\ <<"wait">> \in Seq(Steps) /\ <<"run", "wait">> \in Seq(Steps)
      /\ <<"await_running">> \in Seq(Steps) /\ <<"RestartUnit", "await_running">> \in Seq(Steps)
      /\ <<"await_running", "wait">> \in Seq(Steps)
      /\ <<"StartUnit", "await_running", "wait">> \in Seq(Steps)
      /\ <<"restart">> \in Seq(Steps) /\ <<"unit">> \in Seq(Steps)
  BY DEF Steps
<1>3. <<"unit">> \o <<"run", "wait">> = <<"unit", "run", "wait">>
  <2>1. /\ <<"unit", "run", "wait">> \in Seq(Steps) /\ Len(<<"unit", "run", "wait">>) = 3
        /\ Len(<<"unit">>) = 1 /\ Len(<<"run", "wait">>) = 2
    BY DEF Steps
  <2>2. /\ <<"unit">> \o <<"run", "wait">> \in Seq(Steps)
        /\ Len(<<"unit">> \o <<"run", "wait">>) = 3
    BY <1>2, <2>1, ConcatProperties
  <2>3. \A i \in 1..3 : (<<"unit">> \o <<"run", "wait">>)[i] = <<"unit", "run", "wait">>[i]
    OBVIOUS
  <2>4. QED
    BY <2>1, <2>2, <2>3, SeqEqual
<1>4. <<"unit", "StartUnit", "await_running">> \o <<"wait">>
        = <<"unit", "StartUnit", "await_running", "wait">>
  <2> DEFINE s == <<"unit", "StartUnit", "await_running">>
             t == <<"unit", "StartUnit", "await_running", "wait">>
  <2>1. s \in Seq(Steps) /\ t \in Seq(Steps) /\ Len(s) = 3 /\ Len(t) = 4 /\ Len(<<"wait">>) = 1
    BY DEF Steps
  <2>2. s \o <<"wait">> \in Seq(Steps) /\ Len(s \o <<"wait">>) = 4
    <3> HIDE DEF s, t
    <3>1. <<"wait">> \in Seq(Steps)
      BY <1>2
    <3>2. /\ s \o <<"wait">> \in Seq(Steps)
          /\ Len(s \o <<"wait">>) = Len(s) + Len(<<"wait">>)
      BY <2>1, <3>1, ConcatProperties
    <3>3. QED
      BY <2>1, <3>2
  <2>3. \A i \in 1..4 : (s \o <<"wait">>)[i] = t[i]
    OBVIOUS
  <2>4. QED
    BY <2>1, <2>2, <2>3, SeqEqual
<1>5. QED
  BY <1>1, <1>2, <1>3, <1>4, CalledSteps
\* Which step is next.
LEMMA NextStep ==
  ASSUME ModuleStep
  PROVE  /\ Head(todo) = "decide" => recreate_or_restart_container
         /\ Head(todo) = "fit" => fit_container
         /\ Head(todo) = "create" => create_container \/ create_container_volumes
         /\ Head(todo) = "restart" => restart_container
         /\ Head(todo) = "unit" => create_unit_file
         /\ Head(todo) = "run" => run_container
         /\ Head(todo) \in {"RestartUnit", "StartUnit"} => Enqueue
         /\ Head(todo) = "await_running" => wait_for_unit
         /\ Head(todo) = "wait" => wait_container
         /\ Head(todo) \notin {"fit", "create"} => seen' = seen
BY DEF ModuleStep, compare_container, ensure_image, pull_image,
     recreate_or_restart_container, fit_container, create_container_volumes, create_container, create_unit_file,
     run_container, Enqueue, wait_for_unit, engine_start, engine_stop, wait_container,
     return_code, stop_container, remove_unit_file, remove_container,
     stop_and_remove_container, restart_container, create_volume, remove_volume, remove_image,
     Look, At, Idle, Jobs

\* What the request says stays what it was.
LEMMA RequestStays ==
  ASSUME UNCHANGED req
  PROVE  p' = p /\ Strategy' = Strategy /\ generate_unit_file' = generate_unit_file
         /\ OneShot' = OneShot /\ RunsByUnit' = RunsByUnit
BY DEF p, Strategy, generate_unit_file, OneShot, RunsByUnit

LEMMA FitStays ==
  ASSUME UNCHANGED <<engine, req, image>>, Match,
         cont' # None, cont'.req = cont.req, cont'.image = cont.image
  PROVE  Match'
<1>1. p' = p
  BY RequestStays
<1>2. Info' = Info
  BY DEF Info
<1>3. QED
  BY <1>1, <1>2 DEF Match

\* The parts of the invariants that the steps rely on.
LEMMA RecreationFacts ==
  ASSUME FullInv
  PROVE  /\ unit = [file |-> unit.file, loaded |-> unit.loaded, sub |-> unit.sub, job |-> unit.job]
         /\ cont = None \/ cont \in Containers
         /\ todo = <<>> \/ res = "none"
         /\ req \in DOMAIN Requests /\ config \in {0, 1} /\ None \notin Jobs
         /\ todo \in Seq(Steps) /\ Course(todo)
         /\ RunsByUnit => ~OneShot
<1>1. RunsByUnit => ~OneShot
  BY DEF RunsByUnit, OneShot, p, FullInv, Inv, Types
<1>2. QED
  BY <1>1, ContainerAssumption DEF FullInv, Inv, Types, Ready, Chain, Account, Placed

\* A step of an undisturbed recreation that does not fail.
LEMMA RecreationStays ==
  ASSUME FullInv, ModuleStep, Recreation'
  PROVE  Recreation
<1>1. UNCHANGED <<req, op>> /\ (quiet' => quiet) /\ todo # <<>>
  BY ModuleFixed
<1>2. p' = p /\ RunsByUnit' = RunsByUnit
  BY <1>1, RequestStays
<1>3. QED
  BY <1>1, <1>2, RecreationFacts DEF Recreation, Recreates

\* The decision.
LEMMA DecidingRecreates ==
  ASSUME FullInv, ModuleStep, todo = <<"decide">>
  PROVE  (seen' = None /\ "create" \in Left(todo')) \/ Kept'
<1>1. recreate_or_restart_container /\ seen' = seen
  BY NextStep, RecreateTuples
<1>2. seen = None
  <2>1. At("decide")
    BY RecreateTuples, ModuleFixed DEF At, Idle
  <2>2. QED
    BY <2>1 DEF FullInv, Account, Placed
<1>3. ASSUME NEW m, Then(m), m \o <<>> = m PROVE todo' = m
  BY <1>3, RecreateTuples DEF Then
<1>4. CASE cont = None
  <2>1. todo' = StartSteps
    BY <1>1, <1>3, <1>4, RecreateSequences DEF recreate_or_restart_container, Look
  <2>2. QED
    BY <1>1, <1>2, <2>1, StartingCourse
<1>5. CASE cont # None /\ (Strategy = "COPY_ONCE" \/ Differs)
  <2>1. todo' = RecreateSteps
    BY <1>1, <1>3, <1>5, RecreateSequences DEF recreate_or_restart_container, Look
  <2>2. QED
    BY <1>1, <1>2, <2>1, RecreatingCourse
<1>6. CASE cont # None /\ Strategy # "COPY_ONCE" /\ ~Differs
  <2>1. Strategy = "COPY_ALWAYS"
    BY <1>6, RequestsAssumption, RecreationFacts DEF Strategy, Strategies, p
  <2>2. todo' = <<"restart">>
    BY <1>1, <1>3, <1>6, <2>1, RecreateSequences DEF recreate_or_restart_container, Look
  <2>3. Match
    <3>1. cont.status = p.state
      BY <1>6 DEF Differs, check_container_differs, compare_container_state
    <3>2. QED
      BY <1>6, <3>1 DEF Differs, Match
  <2>4. UNCHANGED <<engine, req, image, cont>>
    BY <1>1 DEF recreate_or_restart_container, Look, Fixed, World
  <2>5. Match' /\ Strategy' = Strategy
    BY <1>6, <2>3, <2>4, FitStays, RequestStays
  <2>6. <<"restart">> # <<>> /\ <<"restart">> # <<"await_running">>
    BY RecreateTuples
  <2>7. QED
    BY <1>1, <1>2, <2>1, <2>2, <2>5, <2>6 DEF Kept, RestartLeft
<1>7. QED
  BY <1>4, <1>5, <1>6
\* A step that is left stays so until its turn comes.
LEMMA LeftStays ==
  ASSUME NEW s \in Seq(Steps), s # <<>>, NEW m \in Seq(Steps),
         NEW x \in Left(s), x # s[1], NEW t, Pushed(s, m, t)
  PROVE  x \in Left(t)
<1>1. /\ Len(s) \in Nat \ {0} /\ Len(m) \in Nat /\ Len(t) = Len(m) + Len(s) - 1
      /\ \A i \in (Len(m) + 1)..Len(t) : t[i] = s[i - Len(m) + 1]
  BY DEF Pushed
<1>2. PICK k \in 1..Len(s) : s[k] = x /\ k # 1
  BY DEF Left
<1>3. k + Len(m) - 1 \in (Len(m) + 1)..Len(t) /\ k + Len(m) - 1 \in 1..Len(t)
      /\ (k + Len(m) - 1) - Len(m) + 1 = k
  BY <1>1, <1>2
<1>4. t[k + Len(m) - 1] = s[k]
  BY <1>1, <1>3
<1>5. QED
  BY <1>2, <1>3, <1>4 DEF Left

\* The end of start_container.
LEMMA CreateLast ==
  ASSUME NEW s \in Seq(Steps), s # <<>>, Course(s), s[1] = "create"
  PROVE  Tail(s) = <<"run", "wait">>
<1>1. Len(s) \in Nat \ {0} /\ 1 \in 1..Len(s)
  BY EmptySeq, LenProperties
<1>2. Len(s) = 3 /\ s[2] = "run"
  <2>1. 1 = Len(s) - 2 /\ s[1 + 1] = "run"
    BY <1>1 DEF Course
  <2>2. QED
    BY <1>1, <2>1
<1>3. s[3] = "wait"
  <2>1. 2 \in 1..Len(s)
    BY <1>2
  <2>2. s[2 + 1] = "wait"
    BY <1>2, <2>1 DEF Course
  <2>3. QED
    BY <2>2
<1>4. /\ Tail(s) \in Seq(Steps) /\ Len(Tail(s)) = 2
      /\ \A i \in 1..2 : Tail(s)[i] = s[i + 1]
  BY <1>2, HeadTailProperties
<1>5. /\ <<"run", "wait">> \in Seq(Steps) /\ Len(<<"run", "wait">>) = 2
      /\ <<"run", "wait">>[1] = "run" /\ <<"run", "wait">>[2] = "wait"
  BY DEF Steps
<1>6. \A i \in 1..2 : Tail(s)[i] = <<"run", "wait">>[i]
  <2>1. Tail(s)[1] = "run" /\ Tail(s)[2] = "wait"
    BY <1>2, <1>3, <1>4
  <2>2. 1..2 = {1, 2}
    OBVIOUS
  <2>3. QED
    BY <1>5, <2>1, <2>2
<1>7. QED
  BY <1>4, <1>5, <1>6, SeqEqual

\* The steps up to the creation, which find no container but one that goes.
LEMMA CreatingRecreates ==
  ASSUME FullInv, ModuleStep, Recreation, Recreation', seen = None, "create" \in Left(todo)
  PROVE  (seen' = None /\ "create" \in Left(todo')) \/ Renewed'
<1>1. /\ todo # <<>> /\ todo \in Seq(Steps) /\ Course(todo) /\ Head(todo) = todo[1]
      /\ UNCHANGED <<engine, req, config>>
  BY ModuleFixed, RecreationFacts
<1>2. CASE todo[1] # "create"
  <2>1. PICK m \in Seq(Steps) : Then(m)
    <3>1. ~create_container_volumes
      BY <1>1, <1>2, VolumesFirst DEF At
    <3>2. QED
      BY <3>1, ModuleCalls DEF Recreation
  <2>2. "create" \in Left(todo')
    <3>1. Pushed(todo, m, todo')
      BY <1>1, <2>1, PushShape DEF Then
    <3>2. QED
      BY <1>1, <1>2, <3>1, LeftStays
  <2>3. seen' = None
    <3>1. CASE todo[1] = "fit"
      <4>1. Left(todo) = {"fit", "create", "run", "wait"}
        BY <1>1, <3>1, CoreLeft
      <4>2. cont = None
        BY <4>1 DEF FullInv, Account, Replaced, Recreation
      <4>3. fit_container
        BY <1>1, <3>1, NextStep
      <4>4. QED
        BY <4>2, <4>3 DEF fit_container
    <3>2. CASE todo[1] # "fit"
      BY <1>1, <1>2, <3>2, NextStep
    <3>3. QED
      BY <3>1, <3>2
  <2>4. QED
    BY <2>2, <2>3
<1>3. CASE create_container_volumes
  BY <1>3, VolumesFirst
<1>4. CASE todo[1] = "create" /\ ~create_container_volumes
  <2>1. create_container /\ ~OneShot
    BY <1>1, <1>4, NextStep, RecreationFacts DEF Recreation
  <2>2. /\ Then(<<"unit">>) /\ seen' = "new" /\ UNCHANGED image
        /\ cont' = [req |-> req, image |-> image, status |-> "created", config |-> None]
    BY <2>1 DEF create_container
  <2>3. todo' = <<"unit", "run", "wait">>
    <3>1. todo' = <<"unit">> \o <<"run", "wait">>
      BY <1>1, <1>4, <2>2, CreateLast DEF Then
    <3>2. QED
      BY <3>1, RecreateSequences
  <2>4. cont' # None
    <3>1. image # None
      <4>1. 1 \in 1..Len(todo)
        BY <1>1, EmptySeq
      <4>2. NeedsImage(todo) /\ ~At("ensure") /\ ~At("pull")
        BY <1>1, <1>4, <4>1 DEF NeedsImage, At, Idle
      <4>3. QED
        BY <4>2 DEF FullInv, Inv, Ready
    <3>2. image \in Images /\ req \in DOMAIN Requests
      BY <3>1 DEF FullInv, Inv, Types
    <3>3. cont' \in Containers
      BY <2>2, <3>2 DEF Containers, Statuses
    <3>4. QED
      BY <3>3, ContainerAssumption
  <2>5. cont'.req = req' /\ cont'.image = image' /\ cont'.config = None /\ ~Up'
    BY <1>1, <2>2 DEF Up
  <2>6. QED
    BY <1>1, <2>2, <2>3, <2>4, <2>5 DEF Renewed, StartLeft
<1>5. QED
  BY <1>2, <1>3, <1>4
\* A step that calls for no other.
LEMMA ThenNext ==
  ASSUME Then(<<>>), NEW t, Tail(todo) = t, <<>> \o t = t
  PROVE  todo' = t
BY DEF Then

\* The sequences differ.
LEMMA DifferentTodo ==
  /\ <<"restart">> \notin {<<"await_running">>, <<>>}
  /\ <<"unit", "RestartUnit", "await_running">> \notin {<<"await_running">>, <<>>, <<"restart">>}
  /\ <<"RestartUnit", "await_running">>
       \notin {<<"await_running">>, <<>>, <<"restart">>, <<"unit", "RestartUnit", "await_running">>}
  /\ <<"await_running">> \notin {<<"restart">>, <<"unit", "RestartUnit", "await_running">>}
  /\ <<"unit", "run", "wait">> \notin {<<"run", "wait">>, <<"await_running", "wait">>, <<"wait">>, <<>>}
  /\ <<"unit", "run", "wait">> # <<"unit", "StartUnit", "await_running", "wait">>
  /\ <<"unit", "run", "wait">> # <<"StartUnit", "await_running", "wait">>
<1>1. /\ Len(<<"unit", "run", "wait">>) = 3 /\ Len(<<"unit", "StartUnit", "await_running", "wait">>) = 4
      /\ <<"unit", "run", "wait">>[1] = "unit" /\ <<"StartUnit", "await_running", "wait">>[1] = "StartUnit"
  OBVIOUS
<1>2. <<"unit", "run", "wait">> # <<"unit", "StartUnit", "await_running", "wait">>
  BY <1>1
<1>3. <<"unit", "run", "wait">> # <<"StartUnit", "await_running", "wait">>
  BY <1>1
<1>4. QED
  BY <1>2, <1>3

\* The steps of a restart.
LEMMA KeptModule ==
  ASSUME FullInv, ModuleStep, Recreation, Recreation', Kept
  PROVE  Kept'
<1>0. /\ unit = [file |-> unit.file, loaded |-> unit.loaded, sub |-> unit.sub, job |-> unit.job]
      /\ ~OneShot /\ todo # <<>> /\ UNCHANGED <<engine, req, config>>
  BY ModuleFixed, RecreationFacts DEF Recreation
<1>1. /\ seen = None /\ todo \in RestartLeft /\ Strategy = "COPY_ALWAYS" /\ Match
      /\ todo \notin {<<"restart">>, <<"unit", "RestartUnit", "await_running">>}
           => unit.file = generate_unit_file
      /\ \/ todo \in RestartLeft \ {<<"await_running">>, <<>>}
         \/ unit.job = "RestartUnit" \/ (Up => cont.config = config)
  BY DEF Kept
<1>2. Strategy' = "COPY_ALWAYS" /\ generate_unit_file' = generate_unit_file
  BY <1>0, <1>1, RequestStays
<1>3. UNCHANGED <<image, cont>> => Match' /\ (Up' <=> Up) /\ (cont.config = config <=> (cont.config = config)')
  BY <1>0, <1>1, FitStays DEF Match, Up
<1>4. CASE todo = <<"restart">>
  <2>1. restart_container /\ cont # None
    BY <1>1, <1>4, NextStep, RecreateTuples DEF Match
  <2>2. Look("restart", PodmanRestart)
    BY <1>0, <2>1 DEF restart_container, DockerRestart
  <2>3. UNCHANGED <<image, cont, unit, seen>> /\ Then(PodmanRestart)
    BY <2>2 DEF Look, World
  <2>4. todo' = <<"unit", "RestartUnit", "await_running">>
    BY <1>4, <2>3, RecreateTuples, RecreateSequences DEF Then, PodmanRestart
  <2>5. QED
    BY <1>1, <1>2, <1>3, <2>3, <2>4, DifferentTodo DEF Kept, RestartLeft
<1>5. CASE todo = <<"unit", "RestartUnit", "await_running">>
  <2>1. create_unit_file
    BY <1>5, NextStep, RecreateTuples
  <2>2. UNCHANGED <<image, cont, seen>> /\ Then(<<>>) /\ unit'.file = generate_unit_file
    BY <1>0, <2>1 DEF create_unit_file, Fixed
  <2>3. todo' = <<"RestartUnit", "await_running">>
    BY <1>5, <2>2, ThenNext, RecreateTuples, RecreateSequences
  <2>4. QED
    BY <1>1, <1>2, <1>3, <2>2, <2>3, DifferentTodo DEF Kept, RestartLeft
<1>6. CASE todo = <<"RestartUnit", "await_running">>
  <2>1. Enqueue
    BY <1>6, NextStep, RecreateTuples
  <2>2. UNCHANGED <<image, cont, seen>> /\ Then(<<>>) /\ unit'.file = unit.file
        /\ unit'.job = "RestartUnit"
    BY <1>0, <1>6, <2>1, RecreateTuples DEF Enqueue, At, Fixed
  <2>3. todo' = <<"await_running">>
    BY <1>6, <2>2, ThenNext, RecreateTuples, RecreateSequences
  <2>4. unit.file = generate_unit_file
    BY <1>1, <1>6, DifferentTodo
  <2>5. QED
    BY <1>1, <1>2, <1>3, <2>2, <2>3, <2>4 DEF Kept, RestartLeft
<1>7. CASE todo = <<"await_running">>
  <2>1. wait_for_unit
    BY <1>7, NextStep, RecreateTuples
  <2>2. UNCHANGED <<image, cont, unit, seen>> /\ todo' = <<>>
    <3>1. Then(<<>>) => todo' = <<>>
      BY <1>7, ThenNext, RecreateTuples, RecreateSequences
    <3>2. QED
      BY <2>1, <3>1 DEF wait_for_unit, World, Fail
  <2>3. unit.file = generate_unit_file /\ (unit.job = "RestartUnit" \/ (Up => cont.config = config))
    BY <1>1, <1>7, DifferentTodo
  <2>4. QED
    BY <1>1, <1>2, <1>3, <2>2, <2>3 DEF Kept, RestartLeft
<1>8. QED
  BY <1>0, <1>1, <1>4, <1>5, <1>6, <1>7 DEF RestartLeft

\* The steps that start the new container.
LEMMA RenewedModule ==
  ASSUME FullInv, ModuleStep, Recreation, Recreation', Renewed
  PROVE  Renewed'
<1>0. /\ unit = [file |-> unit.file, loaded |-> unit.loaded, sub |-> unit.sub, job |-> unit.job]
      /\ ~OneShot /\ todo # <<>> /\ UNCHANGED <<engine, req, config>> /\ p.detach
  BY ModuleFixed, RecreationFacts DEF Recreation
<1>1. /\ seen = "new" /\ todo \in StartLeft
      /\ cont # None /\ cont.req = req /\ cont.image = image
      /\ cont.config \in {None, config} /\ (Up => cont.config = config)
      /\ todo # <<"unit", "run", "wait">> => unit.file = generate_unit_file
  BY DEF Renewed
<1>2. generate_unit_file' = generate_unit_file
  BY <1>0, RequestStays
<1>3. ASSUME UNCHANGED <<image, cont, seen>>, todo' \in StartLeft, unit'.file = generate_unit_file
      PROVE  Renewed'
  BY <1>0, <1>1, <1>2, <1>3 DEF Renewed, Up
<1>4. CASE todo \in {<<"unit", "run", "wait">>, <<"unit", "StartUnit", "await_running", "wait">>}
  <2>1. create_unit_file
    BY <1>4, NextStep, RecreateTuples
  <2>2. UNCHANGED <<image, cont, seen>> /\ Then(<<>>) /\ unit'.file = generate_unit_file
    BY <1>0, <2>1 DEF create_unit_file, Fixed
  <2>3. todo' \in {<<"run", "wait">>, <<"StartUnit", "await_running", "wait">>}
    BY <1>4, <2>2, ThenNext, RecreateTuples, RecreateSequences
  <2>4. QED
    BY <1>3, <2>2, <2>3 DEF StartLeft
<1>5. CASE todo = <<"run", "wait">>
  <2>1. run_container
    BY <1>5, NextStep, RecreateTuples
  <2>2. UNCHANGED <<image, cont, unit, seen>>
    BY <2>1 DEF run_container, World
  <2>3. todo' \in {<<"wait">>, <<"unit", "StartUnit", "await_running", "wait">>}
    <3>1. Then(<<>>) \/ Then(<<"unit", "StartUnit", "await_running">>)
      BY <1>0, <2>1 DEF run_container
    <3>2. QED
      BY <1>5, <3>1, RecreateTuples, RecreateSequences DEF Then
  <2>4. unit.file = generate_unit_file
    BY <1>1, <1>5, DifferentTodo
  <2>5. QED
    BY <1>3, <2>2, <2>3, <2>4 DEF StartLeft
<1>6. CASE todo = <<"StartUnit", "await_running", "wait">>
  <2>1. Enqueue
    BY <1>6, NextStep, RecreateTuples
  <2>2. UNCHANGED <<image, cont, seen>> /\ Then(<<>>) /\ unit'.file = unit.file
    BY <1>0, <2>1 DEF Enqueue, Fixed
  <2>3. todo' = <<"await_running", "wait">>
    BY <1>6, <2>2, ThenNext, RecreateTuples, RecreateSequences
  <2>4. unit.file = generate_unit_file
    BY <1>1, <1>6, DifferentTodo
  <2>5. QED
    BY <1>3, <2>2, <2>3, <2>4 DEF StartLeft
<1>7. CASE todo = <<"await_running", "wait">>
  <2>1. wait_for_unit
    BY <1>7, NextStep, RecreateTuples
  <2>2. UNCHANGED <<image, cont, unit, seen>> /\ todo' \in {<<"wait">>, <<>>}
    <3>1. Then(<<>>) => todo' = <<"wait">>
      BY <1>7, ThenNext, RecreateTuples, RecreateSequences
    <3>2. QED
      BY <2>1, <3>1 DEF wait_for_unit, World, Fail
  <2>3. unit.file = generate_unit_file
    BY <1>1, <1>7, DifferentTodo
  <2>4. QED
    BY <1>3, <2>2, <2>3 DEF StartLeft
<1>8. CASE todo = <<"wait">>
  <2>1. Look("wait", <<>>)
    <3>1. wait_container
      BY <1>8, NextStep, RecreateTuples
    <3>2. QED
      BY <1>0, <3>1 DEF wait_container
  <2>2. UNCHANGED <<image, cont, unit, seen>> /\ Then(<<>>)
    BY <2>1 DEF Look, World
  <2>3. todo' = <<>>
    BY <1>8, <2>2, ThenNext, RecreateTuples, RecreateSequences
  <2>4. unit.file = generate_unit_file
    BY <1>1, <1>8, DifferentTodo
  <2>5. QED
    BY <1>3, <2>2, <2>3, <2>4 DEF StartLeft
<1>9. QED
  BY <1>0, <1>1, <1>4, <1>5, <1>6, <1>7, <1>8 DEF StartLeft
\* systemd and the engine only stop the container or start it.
LEMMA OutsideMoves ==
  ASSUME FullInv, UpByUnit, RunsByUnit, Systemd \/ Unload \/ StartLimitHit \/ ContainerExits
  PROVE  /\ UNCHANGED <<engine, req, op, todo, seen, res, image, config>> /\ unit'.file = unit.file
         /\ quiet' => quiet
         /\ unit.job = "RestartUnit" => unit'.job = "RestartUnit" \/ ~Up'
         /\ \/ cont' = cont
            \/ /\ cont # None /\ cont' \in Containers /\ cont'.req = cont.req
               /\ cont'.image = cont.image
               /\ \/ cont'.config = cont.config /\ ~Up'
                  \/ cont'.config = Started(cont).config
<1>0. /\ unit = [file |-> unit.file, loaded |-> unit.loaded, sub |-> unit.sub, job |-> unit.job]
      /\ cont = None \/ cont \in Containers
      /\ config \in {0, 1} /\ (Up => unit.sub = "running")
  BY RecreationFacts DEF UpByUnit
<1>1. /\ UNCHANGED <<engine, req, op, todo, seen, res, image, config>>
      /\ quiet' => quiet
  BY DEF Systemd, Unload, StartLimitHit, ContainerExits, StopJob, StartJob, RestartJob,
     ExecStarts, ExecEnds, AutoRestart, Outside, module, Disturb
<1>2. unit'.file = unit.file
  BY <1>0 DEF Systemd, Unload, StartLimitHit, ContainerExits, StopJob, StartJob, RestartJob,
     ExecStarts, ExecEnds, Ended, AutoRestart
<1>3. ASSUME Up, cont' = [cont EXCEPT !.status = "exited"]
      PROVE  /\ cont # None /\ cont' \in Containers /\ cont'.req = cont.req
             /\ cont'.image = cont.image /\ cont'.config = cont.config /\ ~Up'
  BY <1>0, <1>3 DEF Up, Containers, Statuses
<1>4. ASSUME cont # None, cont' = Started(cont)
      PROVE  cont' \in Containers /\ cont'.req = cont.req /\ cont'.image = cont.image
  BY <1>0, <1>4 DEF Started, Containers, Statuses
<1>5. \/ cont' = cont
      \/ Up /\ cont' = [cont EXCEPT !.status = "exited"]
      \/ cont # None /\ cont' = Started(cont)
  BY DEF Systemd, Unload, StartLimitHit, ContainerExits, StopJob, StartJob, RestartJob,
     ExecStarts, ExecEnds, AutoRestart
<1>6. ASSUME unit.job = "RestartUnit" PROVE unit'.job = "RestartUnit" \/ ~Up'
  <2>1. CASE RestartJob
    <3>1. CASE Up
      <4>1. cont' = [cont EXCEPT !.status = "exited"]
        BY <1>0, <2>1, <3>1 DEF RestartJob
      <4>2. QED
        BY <1>3, <3>1, <4>1
    <3>2. CASE ~Up
      <4>1. cont' = cont
        BY <2>1, <3>2 DEF RestartJob
      <4>2. QED
        BY <3>2, <4>1 DEF Up
    <3>3. QED
      BY <3>1, <3>2
  <2>2. CASE ~RestartJob
    <3>1. ~StopJob /\ ~StartJob
      BY <1>6 DEF StopJob, StartJob
    <3>2. unit'.job = unit.job
      BY <1>0, <2>2, <3>1 DEF Systemd, Unload, StartLimitHit, ContainerExits,
         ExecStarts, ExecEnds, Ended, AutoRestart
    <3>3. QED
      BY <1>6, <3>2
  <2>3. QED
    BY <2>1, <2>2
<1>7. QED
  BY <1>1, <1>2, <1>3, <1>4, <1>5, <1>6

\* A container that fits has the strategy of the request.
LEMMA FitHasStrategy ==
  ASSUME FullInv, Match
  PROVE  /\ cont \in Containers
         /\ Requests[cont.req].environment["KOLLA_CONFIG_STRATEGY"] = Strategy
<1> DEFINE k == "KOLLA_CONFIG_STRATEGY"
           o == Requests[cont.req]
<1>1. cont \in Containers /\ cont.req \in DOMAIN Requests /\ req \in DOMAIN Requests
  BY RecreationFacts DEF Match, Containers
<1>2. /\ k \in DOMAIN o.environment /\ k \in DOMAIN p.environment /\ o.environment[k] # None
      /\ k # "KOLLA_SERVICE_NAME"
  BY <1>1, RequestsAssumption, ContainerAssumption DEF p
<1>3. ~compare_environment(p, Inspect(engine, o, cont.image))
  BY DEF Match, Info, check_container_differs
<1> HIDE DEF k, o
<1>4. o.environment[k] = p.environment[k]
  BY <1>2, <1>3, VariableKept
<1>5. QED
  BY <1>1, <1>4 DEF Strategy, k, o

LEMMA OutsideRecreates ==
  ASSUME FullInv, UpByUnit, RecreateInv, Systemd \/ Unload \/ StartLimitHit \/ ContainerExits
  PROVE  RecreateInv'
<1> SUFFICES ASSUME Recreation'
             PROVE  (todo = <<"decide">> \/ (seen = None /\ "create" \in Left(todo)) \/ Kept
                       \/ Renewed)'
  BY DEF RecreateInv
<1>1. RunsByUnit
  <2>1. UNCHANGED req
    BY DEF Systemd, Unload, StartLimitHit, ContainerExits, StopJob, StartJob, RestartJob,
       ExecStarts, ExecEnds, AutoRestart, Outside, module
  <2>2. QED
    BY <2>1, RequestStays DEF Recreation
<1>2. /\ UNCHANGED <<engine, req, op, todo, seen, res, image, config>> /\ unit'.file = unit.file
      /\ quiet' => quiet
      /\ unit.job = "RestartUnit" => unit'.job = "RestartUnit" \/ ~Up'
      /\ \/ cont' = cont
         \/ /\ cont # None /\ cont' \in Containers /\ cont'.req = cont.req
            /\ cont'.image = cont.image
            /\ \/ cont'.config = cont.config /\ ~Up'
               \/ cont'.config = Started(cont).config
  BY <1>1, OutsideMoves
<1>3. p' = p /\ Strategy' = Strategy /\ generate_unit_file' = generate_unit_file /\ Recreation
  BY <1>2, RequestStays DEF Recreation, Recreates
<1>4. CASE todo = <<"decide">> \/ (seen = None /\ "create" \in Left(todo))
  BY <1>2, <1>4
<1>5. CASE Kept
  <2>1. cont # None /\ Match /\ cont \in Containers
        /\ Requests[cont.req].environment["KOLLA_CONFIG_STRATEGY"] = "COPY_ALWAYS"
    BY <1>5, FitHasStrategy DEF Kept, Match
  <2>2. Started(cont).config = config
    BY <2>1 DEF Started, Containers
  <2>3. cont' # None /\ cont'.req = cont.req /\ cont'.image = cont.image
    BY <1>2, <2>1, ContainerAssumption
  <2>4. Match'
    BY <1>2, <2>1, <2>3, FitStays
  <2>5. (Up => cont.config = config) => (Up' => cont'.config = config')
    BY <1>2, <2>2 DEF Up
  <2>6. \/ todo' \in RestartLeft \ {<<"await_running">>, <<>>}
        \/ unit'.job = "RestartUnit" \/ (Up' => cont'.config = config')
    BY <1>2, <1>5, <2>5 DEF Kept
  <2>7. QED
    BY <1>2, <1>3, <1>5, <2>4, <2>6 DEF Kept
<1>6. CASE Renewed
  <2>1. cont # None /\ cont \in Containers /\ cont.config \in {None, config}
    BY <1>6, RecreationFacts DEF Renewed
  <2>2. Started(cont).config = config
    BY <2>1 DEF Started, Containers
  <2>3. cont' # None /\ cont'.req = cont.req /\ cont'.image = cont.image
    BY <1>2, <2>1, ContainerAssumption
  <2>4. cont'.config \in {None, config'} /\ (Up' => cont'.config = config')
    BY <1>2, <1>6, <2>1, <2>2 DEF Renewed, Up
  <2>5. QED
    BY <1>2, <1>3, <1>6, <2>3, <2>4 DEF Renewed
<1>7. QED
  BY <1>3, <1>4, <1>5, <1>6 DEF RecreateInv

LEMMA RecreateStep == FullInv /\ StopInv /\ RecreateInv /\ [Next]_vars => RecreateInv'
<1> SUFFICES ASSUME FullInv, StopInv, RecreateInv, [Next]_vars PROVE RecreateInv'
  OBVIOUS
<1>1. CASE ModuleStep
  <2> SUFFICES ASSUME Recreation'
               PROVE  (todo = <<"decide">> \/ (seen = None /\ "create" \in Left(todo)) \/ Kept
                         \/ Renewed)'
    BY DEF RecreateInv
  <2>1. Recreation
    BY <1>1, RecreationStays
  <2>2. CASE todo = <<"decide">>
    BY <1>1, <2>2, DecidingRecreates
  <2>3. CASE seen = None /\ "create" \in Left(todo)
    BY <1>1, <2>1, <2>3, CreatingRecreates
  <2>4. CASE Kept
    BY <1>1, <2>1, <2>4, KeptModule
  <2>5. CASE Renewed
    BY <1>1, <2>1, <2>5, RenewedModule
  <2>6. QED
    BY <2>1, <2>2, <2>3, <2>4, <2>5 DEF RecreateInv
<1>2. CASE \E c \in Calls : Begin(c[1], c[2])
  <2>1. PICK c \in Calls : Begin(c[1], c[2])
    BY <1>2
  <2>2. op' = c[1] /\ todo' = Program[c[1]]
    BY <2>1 DEF Begin
  <2>3. Recreates' => todo' = <<"decide">>
    BY <2>2 DEF Recreates, Program
  <2>4. QED
    BY <2>3 DEF RecreateInv, Recreation
<1>3. CASE Systemd \/ Unload \/ StartLimitHit \/ ContainerExits
  BY <1>3, OutsideRecreates DEF StopInv
<1>4. CASE ImagePublished \/ RegistryFails \/ ConfigChanges \/ CallFails
  <2>1. ~quiet'
    BY <1>4 DEF ImagePublished, RegistryFails, ConfigChanges, CallFails, Disturb
  <2>2. QED
    BY <2>1 DEF RecreateInv, Recreation
<1>5. CASE UNCHANGED vars
  BY <1>5 DEF vars, module, RecreateInv, Recreation, Recreates, RunsByUnit, p, Kept, Renewed,
     Match, Info, Strategy, generate_unit_file, OneShot, Up
<1>6. QED
  BY <1>1, <1>2, <1>3, <1>4, <1>5 DEF Next

\* Once systemd has settled after a recreation that has succeeded, compare_container
\* finds nothing left to change, for any requests whose options both sides of the code
\* treat alike: the container is the request's own or does not differ from it, it has
\* taken over the configuration, and its unit file is the request's.
THEOREM RecreationConverges == Spec => []RecreateConverges
<1>1. Init => RecreateInv
  BY DEF Init, RecreateInv, Recreation, Recreates
<1>2. Init => StopInv
  BY DEF Init, StopInv, UpByUnit, StopOrder, StopEffect, Up
<1>3. FullInv /\ RecreateInv => RecreateConverges
  <2> SUFFICES ASSUME FullInv, RecreateInv,
                      op = "recreate_or_restart_container", res = "ok", quiet, p.detach,
                      RunsByUnit, p.state = "running", Supported(engine, p), unit.job = None, Up
               PROVE  ~CompareSaysChanged
    BY DEF RecreateConverges
  <2>1. todo = <<>> /\ None # "RestartUnit" /\ req \in DOMAIN Requests /\ engine \in Engines
    BY RecreationFacts DEF Jobs, FullInv, ContainerTypeOK
  <2>2. Kept \/ Renewed
    <3>1. Left(todo) = {} /\ todo # <<"decide">>
      BY <2>1 DEF Left
    <3>2. QED
      BY <3>1 DEF RecreateInv, Recreation, Recreates
  <2>3. cont # None /\ cont \in Containers /\ cont.status = "running"
    BY RecreationFacts DEF Up
  <2>4. ~check_container_differs(engine, p, Info, image, "running")
    <3>1. CASE Kept
      BY <3>1 DEF Kept, Match
    <3>2. CASE Renewed
      <4>1. Info = Inspect(engine, p, image) /\ image # None
        BY <2>3, <3>2, ContainerAssumption DEF Renewed, Info, p, Containers
      <4>2. Fits(engine, p)
        BY <2>1, RequestsAssumption DEF Fits, p
      <4>3. QED
        BY <2>1, <4>1, <4>2, OwnRequestFits
    <3>3. QED
      BY <2>2, <3>1, <3>2
  <2>5. unit.file = generate_unit_file /\ cont.config = config
    BY <2>1, <2>2, RecreateTuples DEF Kept, Renewed
  <2>6. QED
    BY <2>3, <2>4, <2>5 DEF CompareSaysChanged, Differs, compare_config, check_unit_change
<1>4. FullInv /\ StopInv /\ RecreateInv /\ [Next]_vars => FullInv' /\ StopInv' /\ RecreateInv'
  BY FullStep, StopStep, RecreateStep
<1>5. QED
  BY <1>1, <1>2, <1>3, <1>4, InitFull, PTL DEF Spec
==============================================================================
