----------------------------- MODULE MCAppTabs -----------------------------
(* Two files of different names, one of which is a name the menu makes,    *)
(* and one that can be opened twice, for TLC.                              *)
EXTENDS AppTabs

MCExample == <<"example", 0>>
MCFiles == {[name |-> <<"file", 1>>, text |-> <<"text", 1>>],
            [name |-> Untitled(2), text |-> <<"text", 2>>]}
=============================================================================
