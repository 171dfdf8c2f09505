----------------------------- MODULE MCCompiler -----------------------------
EXTENDS Compiler

X == Name("x")
Y == Name("y")
Scalars(names) == [k \in DOMAIN names |-> [name |-> names[k], size |-> 0]]

\* inline fn twist(a, b) { let a = a * b; return (a + b, a); }
Twist == [inline |-> TRUE, name |-> "twist", params |-> Scalars(<<"a", "b">>),
          body |-> <<LetStmt(<<"a">>, Op("mul", Name("a"), Name("b")))>>,
          rets |-> <<Op("add", Name("a"), Name("b")), Name("a")>>]
\* inline fn rotate(s: [felt; 2]) { let out = map(j, 0..2, 2 * s[(j + 1) % 2]); return out; }
Rotate == [inline |-> TRUE, name |-> "rotate", params |-> <<[name |-> "s", size |-> 2]>>,
           body |-> <<LetStmt(<<"out">>, <<"map", "j", <<Num(0), Num(2),
                        Op("mul", Num(2), At("s", Op("rem", Op("add", Name("j"), Num(1)), Num(2))))>> >>)>>,
           rets |-> <<Name("out")>>]
\* fn cube(x) { let x2 = x * x; return x2 * x; }
Cube == [inline |-> FALSE, name |-> "cube", params |-> Scalars(<<"x">>),
         body |-> <<LetStmt(<<"x2">>, Op("mul", X, X))>>, rets |-> <<Op("mul", Name("x2"), X)>>]
\* fn divide(x, y) { let d = cube(x); return (d - y, d); }
Split == [inline |-> FALSE, name |-> "split", params |-> Scalars(<<"x", "y">>),
          body |-> <<>>, rets |-> <<Op("sub", X, Y), Op("mul", Y, Y)>>]

Statements ==
  { LetStmt(<<"x">>, Op("mul", Op("mul", X, Y), X)),
    LetStmt(<<"x">>, <<"pow", "", <<Op("add", X, <<"constant", "", <<Num(1)>> >>), Num(5)>> >>),
    LetStmt(<<"x", "y">>, <<"call", "twist", <<Y, X>> >>),
    LetStmt(<<"y">>, <<"call", "cube", <<Op("sub", X, Num(1))>> >>),
    LetStmt(<<"s">>, <<"call", "split", <<X, Y>> >>),
    LetStmt(<<"s">>, <<"array", "", <<X, Op("mul", Y, X)>> >>),
    LetStmt(<<"s">>, <<"call", "rotate", <<Name("s")>> >>),
    LetStmt(<<"s">>, <<"update", "s", <<Num(1), Op("mul", At("s", Num(0)), <<"neg", "", <<Y>> >>)>> >>),
    LetStmt(<<"y">>, <<"sum", "j", <<Num(0), Num(2), Op("mul", Name("j"), At("s", Name("j")))>> >>),
    AssertStmt(Op("mul", X, X), Op("mul", Op("mul", Y, Y), Op("mul", X, Num(1)))),
    ForStmt("i", 0, 2, <<LetStmt(<<"x">>, Op("add", X, Op("mul", Name("i"), Y)))>>) }
Returned == { <<Op("add", Y, Op("mul", X, Num(2)))>>, <<Name("s"), Op("mul", X, Y)>> }

Main(body, rets) == [inline |-> FALSE, name |-> "main", params |-> Scalars(<<"x", "y">>), body |-> body, rets |-> rets]
Bodies == UNION { [1 .. n -> Statements] : n \in 1 .. 2 }
MCPrograms ==
  { [max_degree |-> 3, embedded |-> FALSE, fns |-> <<Twist, Rotate, Cube, Split, Main(b, r)>>] : b \in Bodies, r \in Returned }
    \cup { [max_degree |-> 2, embedded |-> FALSE, fns |-> <<Twist, Split, Main(<<s>>, r)>>] : s \in Statements, r \in Returned }
    \cup { [max_degree |-> 3, embedded |-> TRUE, fns |-> <<Twist, Rotate, Main(b, r)>>] : b \in Bodies, r \in Returned }
MCConstants == <<1, 2>>
=============================================================================
