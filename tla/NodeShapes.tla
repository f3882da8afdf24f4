------------------------------- MODULE NodeShapes -------------------------------
(***************************************************************************)
(* What both stored forms of a tree demand of a node's type and flags.      *)
(***************************************************************************)

SerializableTypes ==
    {"Root", "Output", "Tag", "Variable", "Negate", "Section", "Stop", "Comment", "Partial", "InlinePartial"}
TypesWithChildren == {"Root", "Negate", "Section", "InlinePartial"}
DottedTypes == {"Negate", "Section", "Stop", "Tag", "Variable"}

FlagsFit(type, flags) ==
    /\ flags \subseteq {"Escape", "LambdaOnly", "PartialIndent"}
    /\ "LambdaOnly" \in flags => type = "Output" /\ "Escape" \notin flags
    /\ "PartialIndent" \in flags => type = "Output" /\ flags = {"LambdaOnly", "PartialIndent"}

=============================================================================
