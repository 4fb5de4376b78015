------------------------ MODULE MCMigrationGraph ------------------------
(* Four ids: three of the root namespace, two of which share a number, and *)
(* one of an embedded child.  Input 11 is an exact id and a prefix of 112; *)
(* inputs 901 and 902 are prefixes of several and of one id.               *)
EXTENDS MigrationGraph

MCIds     == {11, 21, 22, 1011}
MCInputs  == MCIds \cup {901, 902}
MCMatches == [i \in MCInputs |->
                CASE i = 11  -> {11, 21}
                  [] i = 901 -> {21, 22, 1011}
                  [] i = 902 -> {1011}
                  [] OTHER   -> {i}]
=========================================================================
