---------------------------- MODULE MCObjectCalls ----------------------------
(***************************************************************************)
(* ObjectCalls for TLC: a class, two capabilities, a label of two lengths  *)
(* and one domain parameter; objects of the classes that differ in what    *)
(* they show.                                                              *)
(***************************************************************************)
EXTENDS ObjectCalls, TLC

Object(class, encrypt, derive, label, prime) ==
    [class |-> class, encrypt |-> encrypt, derive |-> derive, label |-> label, prime |-> prime]

MCSize ==
    [v \in {"secret", "public", "private", "domain", "data", "vendor", "yes", "no", "p"} |-> 1]
    @@ ("empty" :> 0) @@ ("short" :> 1) @@ ("long" :> 2)

Secret  == Object("secret", "yes", "yes", "short", Unavailable)
Public  == Object("public", "yes", "empty", "short", "p")
Private == Object("private", Unavailable, "yes", "long", Unavailable)
Domain  == Object("domain", Unavailable, Unavailable, "short", "p")
Data    == Object("data", Unavailable, Unavailable, "short", Unavailable)
Vendor  == Object("vendor", Unavailable, Unavailable, "long", Unavailable)

MCFlags      == {"encrypt", "derive"}
MCObjectKeys == <<"class", "encrypt", "derive">>
MCClasses    == {"secret", "public", "private", "domain"}
MCParamKeys  == <<"prime", "label">>
MCStored     == <<Secret, Vendor>>
MCMade       == {<<Data>>, <<Vendor>>, <<Public, Private>>}
MCHandlers   == [class |-> "enum", encrypt |-> "bool", derive |-> "bool", label |-> "str",
                 prime |-> "bytes"]
MCMakers     == {"derive"}
MCTemplates  == {<<>>, [label |-> "short"]}
MCChanges    == {<<"label", "long">>, <<"encrypt", "no">>, <<"derive", "no">>}
Symmetry     == Permutations(Threads)
=============================================================================
