----------------------------- MODULE MCRouting -----------------------------
(* Three families of cases: payloads that overlap in all ways two levels   *)
(* deep, conditions two at a time, and targets against the workflow's.     *)
EXTENDS Routing

\* An object of values, and a list of them.
Below(step, v) == {<<step>> \o p : p \in DOMAIN v}
Object(f) ==
  [p \in {<<>>} \cup UNION {Below(Key(k), f[k]) : k \in DOMAIN f} |->
     IF p = <<>> THEN [object |-> TRUE] ELSE f[p[1].key][Tail(p)]]
List(s) ==
  [p \in {<<>>} \cup UNION {Below(At(i - 1), s[i]) : i \in DOMAIN s} |->
     IF p = <<>> THEN [list |-> TRUE] ELSE s[p[1].index + 1][Tail(p)]]
Nothing == Object(<<>>)

Targets == { [client |-> c, tags |-> t] : c \in {"", "c1", "c2"}, t \in {{}, {"x"}, {"y"}} }
Anyone == [client |-> "", tags |-> {}]
If(left, op, right) == [left |-> left, op |-> op, right |-> right]
Always == If(Nil, "", Nil)
To(condition, ns) == [condition |-> condition, nexts |-> ns]

\* Payloads of a result and two dependencies, and who knows these.
Inner == { Null, Whole(1), Nothing, Object([x |-> Whole(1)]), Object([y |-> Str("b")]),
           Object([x |-> Nothing]), List(<<Whole(1)>>) }
Payloads == { Null, Str("a"), Nothing, Object([x |-> Object([y |-> Float(1)]), y |-> Float(2)]) }
            \cup { Object([x |-> v]) : v \in Inner }

Merges ==
  { [result |-> p, fields |-> NoFields, mergeInput |-> TRUE, dependencies |-> <<"d1", "d2">>,
     upstream |-> [d1 |-> u, d2 |-> v], upfields |-> [d1 |-> NoFields, d2 |-> NoFields], here |-> k[1], there |-> k[2], executor |-> k[3],
     tags |-> {}, args |-> Nothing, default |-> Anyone, nodes |-> [n1 |-> Anyone],
     entries |-> [e1 |-> To(Always, <<"n1">>)]] :
    p \in Payloads, u \in Payloads, v \in Payloads,
    k \in { <<{"d1", "d2"}, {}, Server>>, <<{"d2"}, {}, "">>, <<{"d1", "d2"}, {}, "c1">>,
            <<{"d1", "d2"}, {"d2"}, "c1">>, <<{"d1"}, {"d1", "d2"}, "c1">> } }

\* Conditions on one payload, on one that is not there and on the struct of a file
\* action that renamed nothing, which may have come from a dependency, or have been
\* merged with it.
File == Object([file |-> Str("dir/a.pdf"), code |-> Whole(1), ok |-> Bool(TRUE), empty |-> Null,
                items |-> List(<<Whole(1), Object([x |-> Str("a")])>>)])
Moved == Object([type |-> Str("error"), file |-> Str("dir/a.pdf"), result |-> Null])
MovedFields == Object([Type |-> Str("error"), File |-> Str("dir/a.pdf"), Result |-> Null,
                       NewFile |-> Str(""), new_file |-> Str("")])
Of(p, besides, u, above) == [result |-> p, fields |-> besides, upstream |-> u, upfields |-> above]
Sources == { Of(File, NoFields, Null, NoFields), Of(Null, NoFields, Null, NoFields),
             Of(Moved, MovedFields, Null, NoFields), Of(Null, NoFields, Moved, MovedFields),
             Of(Moved, MovedFields, File, NoFields) }
Result(path) == Ref("$result", path)
Number(n) == Literal(Float(n))
Quote(s) == Literal(Str(s))
Conditions ==
  { Always, If(Literal(Bool(TRUE)), "", Nil), If(Literal(Bool(FALSE)), "", Nil),
    If(Nil, "", Literal(Bool(TRUE))),
    If(Result(<<Key("ok")>>), "", Nil), If(Result(<<Key("empty")>>), "", Nil),
    If(Result(<<Key("empty")>>), "==", Nil),
    If(Result(<<Key("empty"), Key("x")>>), "==", Nil),
    If(Result(<<Key("code")>>), "==", Number(1)), If(Result(<<Key("code")>>), "!=", Number(1)),
    If(Result(<<Key("code")>>), ">=", Number(1)), If(Result(<<Key("code")>>), "<", Number(1)),
    If(Number(2), ">", Result(<<Key("items"), At(0)>>)),
    If(Result(<<Key("items"), At(1), Key("x")>>), "<=", Number(1)),
    If(Result(<<Key("items"), At(2)>>), "!=", Nil),
    If(Result(<<Key("file")>>), "glob", Quote("*.pdf")),
    If(Result(<<Key("file")>>), "glob", Quote("[")),
    If(Result(<<Key("File")>>), "glob", Quote("*.pdf")),
    If(Result(<<Key("new_file")>>), "=~", Quote("a")), If(Result(<<Key("new_file")>>), "==", Quote("")),
    If(Result(<<Key("file")>>), "=~", Ref("$args", <<Key("pattern")>>)),
    If(Result(<<Key("code")>>), "=~", Quote("a")),
    If(Ref("$input", <<Key("file")>>), "==", Quote("a")), If(Quote("a"), "is", Quote("a")) }

Conditionals ==
  { [result |-> s.result, fields |-> s.fields, mergeInput |-> TRUE, dependencies |-> <<"d1">>,
     upstream |-> [d1 |-> s.upstream], upfields |-> [d1 |-> s.upfields],
     here |-> {"d1"}, there |-> {}, executor |-> x, tags |-> {},
     args |-> Object([pattern |-> Str("a")]), default |-> Anyone,
     nodes |-> [n \in {"n1", "n2"} |-> Anyone],
     entries |-> [e1 |-> To(c, <<"n1", "n2">>), e2 |-> To(d, <<"n2">>), e3 |-> To(Always, <<>>)]] :
    s \in Sources, x \in {Server, "c1"}, c \in Conditions, d \in Conditions }

\* A node with a target of its own, one that is not there any more.
Targetings ==
  { [result |-> File, fields |-> NoFields, mergeInput |-> FALSE, dependencies |-> <<>>,
     upstream |-> <<>>, upfields |-> <<>>, here |-> {}, there |-> {}, executor |-> x, tags |-> ts, args |-> Nothing,
     default |-> d, nodes |-> [n1 |-> t],
     entries |-> [e1 |-> To(Always, <<"n1">>), e2 |-> To(Always, <<"n2", "n1">>)]] :
    t \in Targets, d \in Targets, x \in {Server, "c1", "c3"}, ts \in {{}, {"x"}, {"x", "y"}} }

All == Merges \cup Conditionals \cup Targetings

Matching == { <<"*.pdf", "a.pdf">>, <<"a", "dir/a.pdf">> }
LastParts == [s \in {"dir/a.pdf"} |-> "a.pdf"]
=============================================================================
