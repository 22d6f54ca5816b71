------------------------------ MODULE MCEngine ------------------------------
(* Small workflows for Engine, with a local trigger t and a webhook h: two  *)
(* trees and a join.                                                        *)
EXTENDS Engine, TLC

CONSTANTS t, h, a, b, e1, e2, e3, x1, x2

NoDependencies == [n \in {t, h, a, b} |-> <<>>]
RetryOf(n) == (n :> 1) @@ [k \in {t, h, a, b} |-> 0]

\* t -> a -> b; h leads nowhere.
Line == [at |-> (e1 :> t) @@ (e2 :> a) @@ (e3 :> h),
         nexts |-> (e1 :> {a}) @@ (e2 :> {b}) @@ (e3 :> {}),
         dependencies |-> (a :> <<t>>) @@ (b :> <<a>>) @@ NoDependencies,
         mergeInput |-> {a, b}, retryMax |-> RetryOf(a)]

\* t -> a, h -> b.
Pair == [at |-> (e1 :> t) @@ (e2 :> h) @@ (e3 :> a),
         nexts |-> (e1 :> {a}) @@ (e2 :> {b}) @@ (e3 :> {}),
         dependencies |-> (a :> <<t>>) @@ (b :> <<h>>) @@ NoDependencies,
         mergeInput |-> {a, b}, retryMax |-> RetryOf(b)]

\* t -> {a, b}, a -> b: b runs twice.
Join == [at |-> (e1 :> t) @@ (e2 :> a) @@ (e3 :> b),
         nexts |-> (e1 :> {a, b}) @@ (e2 :> {b}) @@ (e3 :> {}),
         dependencies |-> (a :> <<t>>) @@ (b :> <<t, a>>) @@ NoDependencies,
         mergeInput |-> {b}, retryMax |-> RetryOf(t)]

Small == {Line, Pair, Join}
=============================================================================
