----------------------------- MODULE MCDataLibs -----------------------------
(* The constants of the data_libs run. *)
EXTENDS DataLibs

MCItem(name, folders, partial) ==
  [name |-> name, folders |-> folders, partial |-> partial, flag |-> FALSE, unsaved |-> 0]

MCClasses == DOMAIN LineOf

\* An item without and one with folders, and one with a line break in a text.
MCSamples ==
  [c \in MCClasses |->
     {MCItem("a", <<>>, <<"p">>), MCItem("b", <<"f", "g">>, <<>>)} \cup
     (IF c \in {"ReserveText", "EpgAutoAddText"} THEN {} ELSE {MCItem("broken", <<>>, <<>>)})]

MCWhen == "a" :> 2 @@ "b" :> 1 @@ "broken" :> 2

\* Three that share a packet, one over two packets, headers that lie across packets.
MCSectionSizes == <<6, 24, 6, 6, 7, 9>>
=============================================================================
