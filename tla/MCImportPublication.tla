------------------------ MODULE MCImportPublication ------------------------
EXTENDS ImportPublication

\* The source has c1, adds c2 to it and rewrites it as x; the owner adds l to c1.
MCRefs == {"main", "topic"}
MCCommits == {"c1", "c2", "x", "l"}
MCAncestors == [c \in MCCommits |-> CASE c = "c2" -> {"c1", "c2"}
                                      [] c = "l" -> {"c1", "l"}
                                      [] OTHER -> {c}]
Answer(main, topic, named) ==
    [refs |-> [r \in MCRefs |-> IF r = "main" THEN main ELSE topic], head |-> named]
MCFirstImport == Answer("c1", "c1", "main")
MCAdvertisements == {Answer("c2", "none", "main"), Answer("x", "c2", "topic")}
MCSettings == {[overwrite |-> FALSE, follow |-> TRUE], [overwrite |-> TRUE, follow |-> TRUE]}
MCRefWrites == {[keepHistory |-> TRUE, protect |-> FALSE], [keepHistory |-> FALSE, protect |-> TRUE]}
=============================================================================
