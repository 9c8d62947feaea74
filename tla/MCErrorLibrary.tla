--------------------------- MODULE MCErrorLibrary ---------------------------
(***************************************************************************)
(* ErrorLibrary for TLC: environments in which one of the variables is     *)
(* set, or two of those that concern errors, each to every kind of value   *)
(* the parsers tell apart.                                                 *)
(***************************************************************************)
EXTENDS ErrorLibrary

Values == [PORT     |-> {<< >>, <<7>>},
           DEBUG    |-> {<<3>>},
           SEEDRAND |-> {<<Invalid>>, <<5>>},
           ERR_RATE |-> {<< >>, <<99>>},
           ERR_DROP |-> {<< >>, <<-1>>, <<2>>, <<1, 2>>, <<1, Invalid, 2>>},
           ERR_FLIP |-> {<< >>, <<-1>>, <<1>>}]

Nothing == [k \in Keys |-> NotSet]

ErrorKeys == Keys \ {"PORT", "DEBUG"}

One(keys) == UNION {{[Nothing EXCEPT ![k] = v] : v \in Values[k]} : k \in keys}

Two == UNION {{[e EXCEPT ![k] = v] : v \in Values[k], e \in One(ErrorKeys)} : k \in ErrorKeys}

MCEnvironments == {Nothing} \cup One(Keys) \cup Two
=============================================================================
