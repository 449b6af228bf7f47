--------------------------- MODULE MCObsidianVault --------------------------
(* Values for the constants of ObsidianVault that a .cfg cannot write.      *)
EXTENDS ObsidianVault

CONSTANTS day, meals, lunch, food, blank, s1, s2

MCLines == {day, meals, lunch, food, blank}

\* "# day", "## meals", "### lunch"; the others are text.
MCLevelOf == [line \in MCLines |-> CASE line = day -> 1 [] line = meals -> 2
                                     [] line = lunch -> 3 [] OTHER -> 0]

\* A section within a section, one followed by its like, and none at all.
MCStarts == {<<day, meals, food, lunch, blank>>, <<meals, food, meals, blank>>,
             <<lunch, meals, day, food>>, <<blank>>}

MCCalls == {[op |-> "append", heading |-> h, lines |-> <<food>>] : h \in {meals, lunch}}
     \cup {[op |-> "replace", heading |-> meals, lines |-> <<food, blank>>],
           [op |-> "append", heading |-> food, lines |-> <<lunch, food>>],
           [op |-> "append", heading |-> blank, lines |-> <<food>>],
           [op |-> "write", lines |-> <<meals>>]}
=============================================================================
