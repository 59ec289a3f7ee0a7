--------------------------- MODULE MCArgsParsing ----------------------------
(* Command lines for checking ArgsParsing. *)
EXTENDS ArgsParsing

CONSTANT MaxWords

MCWords == {"--input", "-i", "--help", "-h", "--verbose", "-v", "--csv", "-csv", "-c",
            "file", "info", "debug"}

MCCommandLines == UNION {[1..n -> MCWords] : n \in 0..MaxWords}
=============================================================================
