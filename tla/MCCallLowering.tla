---------------------------- MODULE MCCallLowering ----------------------------
(***************************************************************************)
(* Programs for CallLowering: a and b in the first file, c in the first or *)
(* the second, x in none.                                                  *)
(***************************************************************************)
EXTENDS CallLowering, TLC

CONSTANTS a, b, c, x

By(how, to, last) == [to |-> to, how |-> how, last |-> last]
Named(T) == { << By("name", t, l) >> : t \in T, l \in BOOLEAN }
Held(T) == { << By(h, t, FALSE) >> : h \in {"variable", "table"}, t \in T }

Split(fa, fb, fc) == << (a :> fa) @@ (b :> fb), (c :> fc) >>
Together(fa, fb, fc) == << (a :> fa) @@ (b :> fb) @@ (c :> fc), <<>> >>

Build(code, static, metamorphic, pure, joint, o4, stackless, meta) ==
  [code |-> code, static |-> static, metamorphic |-> metamorphic, pure |-> pure,
   joint |-> joint, o4 |-> o4, stackless |-> stackless, meta |-> meta]

\* -O4: a calls b or c, b calls anything, c calls back.
Scratch ==
  { Build(Split(fa, fb, fc), static, {}, pure, joint, TRUE, FALSE, FALSE) :
      fa \in Named({b, c}) \cup Held({b}), fb \in {<<>>} \cup Named({a, c, x}) \cup Held({b, c}),
      fc \in {<<>>} \cup Named({a, x}) \cup Held({a}),
      static \in {{}, {<<1, b>>}}, pure \in {{}}, joint \in BOOLEAN }

\* Leaves: b may be inlined into a and c, or may be dead once it was.
Leaves ==
  { Build(Split(fa, fb, fc), static, {}, pure, TRUE, TRUE, FALSE, FALSE) :
      fa \in Named({b, c}) \cup Held({b}), fb \in {<<>>} \cup Named({x}) \cup Held({a}),
      fc \in {<<>>} \cup Named({a, b}),
      static \in SUBSET {<<1, a>>, <<1, b>>}, pure \in {{<<1, b>>}, {<<2, c>>}} }

\* Tail calls, with a second call in a and in b.
Tails ==
  { Build(Together(fa \o ga, fb \o gb, <<>>), {}, {}, {}, FALSE, FALSE, TRUE, FALSE) :
      fa \in Named({b, c}), ga \in {<<>>} \cup Named({b, x}),
      fb \in Named({a, c, x}), gb \in {<<>>} \cup Named({c}) }

\* Metamorphic functions: b, or b and c.
Slots ==
  { Build(code, {<<1, b>>} \cup static, {<<1, b>>} \cup twice, {}, joint, FALSE, stackless, TRUE) :
      code \in { Together(fa \o ga, fb, fc) : fa \in Named({b}), ga \in {<<>>} \cup Named({a, c, x}) \cup Held({b, c}),
                   fb \in {<<>>} \cup Named({a, c}), fc \in {<<>>} \cup Named({b}) },
      static \in {{}, {<<1, c>>}}, twice \in {{}, {<<1, c>>}}, joint \in {FALSE},
      stackless \in BOOLEAN }

IsPure(p) == \A f \in p.pure : p.code[f[1]][f[2]] = <<>>

Small == { p \in UNION {Scratch, Leaves, Tails, Slots} : IsPure(p) }

=============================================================================
