------------------------- MODULE MCContainerEngine -------------------------
(* Two containers of one daemon, for the run that reads the CPU column.    *)
EXTENDS ContainerEngine

MCContainers == {"c1-full", "c2-full"}
MCShort == [c \in MCContainers |-> IF c = "c1-full" THEN "c1" ELSE "c2"]
=============================================================================
