------------------------------- MODULE MCPython -------------------------------
(* Values of MemxPython's constants for TLC: what the encoder and decoders *)
(* do to numbers of every kind, what becomes of tensors of some shapes, and*)
(* two threads that use one array, one bytes object, or abort each other.  *)
EXTENDS MemxPython

CONSTANTS t1, t2

Shape(h, w, z, c) == [h |-> h, w |-> w, z |-> z, c |-> c]
Ask(op, fmt, shape, hpoc, object, limit) ==
  [op |-> op, fmt |-> fmt, shape |-> shape, hpoc |-> hpoc, array |-> object, limit |-> limit]
Program(calls1, calls2) == [t \in {t1, t2} |-> IF t = t1 THEN calls1 ELSE calls2]
One == Shape(1, 1, 1, 8)

(* Eight numbers with the exponent top - s, but for the first, and every   *)
(* fraction in one group or another; the last bit is low.                  *)
Exponents == {<<130, s>> : s \in {0, 1, 2, 7, 8, 9, 31, 32, 33, 40}} \cup {<<254, 1>>, <<253, 0>>, <<3, 3>>, <<0, 0>>}
Numbers(e, m, low) ==
  [i \in 1..8 |-> Word(i % 2, IF i = 1 THEN e[1] ELSE e[1] - e[2], 16 * (i - 1) + m) + low]
Encoded ==
  {[call |-> Program(<<Ask("push", "gbf", One, <<>>, "x", 1)>>, <<>>), data |-> [x |-> Numbers(e, m, low)],
    groups |-> <<>>, flat |-> <<>>, arch |-> "x86", wrap |-> wrap, stray |-> 99, poor |-> FALSE] :
     e \in Exponents, m \in 0..15, low \in {0, 1}, wrap \in BOOLEAN}

(* A packet in which lane k has mantissa 8 * p + 37 * k.                   *)
Lanes8(p, sign, exp) ==
  [man |-> [k \in Lanes |-> (8 * p + 37 * k) % 256], sign |-> [k \in Lanes |-> (k + sign) % 2], exp |-> exp]
Decoded ==
  {[call |-> Program(<<Ask("pull", "gbf", One, <<>>, "x", 1)>>, <<>>), data |-> [x |-> Numbers(<<130, 0>>, 0, 0)],
    groups |-> (<<0, 0>> :> Lanes8(p, sign, exp)), flat |-> <<>>, arch |-> arch, wrap |-> TRUE, stray |-> 99,
    poor |-> FALSE] :
     p \in 0..31, sign \in {0, 1}, exp \in {0, 1, 7, 8, 9, 254}, arch \in Arches}

(* Tensors of several pixels, rows and packets per pixel.                  *)
Shapes == {Shape(2, 1, 1, 9), Shape(2, 3, 1, 1), Shape(2, 1, 2, 16), Shape(1, 2, 3, 6)}
Tensor(s) == [i \in 1..Size(s) |-> Word(i % 2, 130, (5 * i) % 128) + (i % 2)]
Groups(s) == [pg \in (0..Size(s) - 1) \X (0..3) |-> Lanes8(7 * pg[1] + 3 * pg[2], pg[2] % 2, 120 + pg[1] + pg[2])]
Flows == {<<"push", f, <<>>>> : f \in Formats} \cup {<<"pull", f, <<>>>> : f \in Formats \ {"odd"}}
           \cup {<<"pull", f, hpoc>> : f \in Gbf, hpoc \in {<<0>>, <<1, 2>>, <<0, 4, 8>>}}
           \cup {<<"pop", f, <<>>>> : f \in {"raw", "float32", "gbf"}}
Laid ==
  {[call |-> Program([n \in 1..(IF f[1] = "push" THEN 2 ELSE 1) |-> Ask(f[1], f[2], s, f[3], "x", 1)], <<>>),
    data |-> [x |-> Tensor(s)], groups |-> Groups(s), flat |-> [i \in 1..Size(s) |-> (7 * i) % 256],
    arch |-> arch, wrap |-> TRUE, stray |-> stray, poor |-> TRUE] :
     <<f, s>> \in {fs \in Flows \X Shapes : \A i \in DOMAIN fs[1][3] : fs[1][3][i] < fs[2].c + Len(fs[1][3])},
     arch \in Arches, stray \in {1, 99}}

(* Two threads.                                                            *)
Two  == Shape(1, 1, 1, 2)
Uses == {<<Ask(f[1], f[2], Two, <<>>, "x", limit)>> : f \in {"push", "pull"} \X {"gbf", "bf16", "raw"}, limit \in {0, 1}}
          \cup {<<Ask(op, "raw", Two, <<>>, "b", 1)>> : op \in {"abort", "i2crw", "gpiorw", "get_ofmap_hpoc"}}
Once  == {u \in Uses : u[1].op = "push" => u[1].limit = 1}
Twice == {u \o u : u \in {v \in Once : v[1].limit = 1 /\ (v[1].fmt = "gbf" \/ v[1].op = "abort")}}
Raced ==
  {[call |-> Program(a, b), data |-> [x |-> <<Word(0, 130, 126), Word(1, 129, 127) + 1>>, b |-> <<4>>],
    groups |-> (<<0, 0>> :> Lanes8(3, 1, 130)), flat |-> <<5, 6>>, arch |-> "x86", wrap |-> TRUE, stray |-> 99,
    poor |-> b \in Once] :
     a \in Once, b \in Once \cup Twice}

(* Every other call, beside a read that waits for ever.                    *)
Passed ==
  {[call |-> Program(<<Ask(op, "raw", Two, <<>>, "b", 1)>>, <<Ask("pull", "raw", Two, <<>>, "x", 0)>>),
    data |-> [x |-> <<0, 1>>, b |-> <<4>>], groups |-> <<>>, flat |-> <<5, 6>>, arch |-> "other", wrap |-> FALSE,
    stray |-> 99, poor |-> TRUE] : op \in Plain}

Programs == Encoded \cup Decoded \cup Laid \cup Raced \cup Passed
=============================================================================
