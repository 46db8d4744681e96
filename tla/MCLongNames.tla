---------------------------- MODULE MCLongNames ----------------------------
(* Two long names whose aliases differ only in their number, one the first *)
(* piece of the other; a short name; and one that may be the alias of      *)
(* either.                                                                 *)
EXTENDS LongNames, TLC

CONSTANTS x, y, z, t

MCText  == (x :> <<"p", "q">>) @@ (y :> <<"p">>) @@ (z :> <<"z">>) @@ (t :> <<"t">>)
MCShort == (x :> <<"P", 0>>) @@ (y :> <<"P", 0>>) @@ (z :> <<"Z", 0>>) @@ (t :> <<"P", 1>>)
\* The checksum of z's alias is that of an alias of x and y.
MCSum   == [a \in {<<"Z", 0>>} \cup {<<"P", k>> : k \in 0 .. MaxNumber} |->
               IF a[1] = "Z" THEN 1 ELSE a[2]]
=============================================================================
