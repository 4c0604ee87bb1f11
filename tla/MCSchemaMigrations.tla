-------------------------- MODULE MCSchemaMigrations --------------------------
(* Instances of SchemaMigrations for TLC. *)
EXTENDS SchemaMigrations

(* Databases met new, before each group of steps, current and newer: every  *)
(* version between is passed through.                                       *)
SomeVersions == {0, 4, 7, 9, 11, 14, 17, 19, 22, 25, 27, 31, 35, 37, 41, 44, 48,
                  51, 54, 57, 59, 60, 63, 65, 68, 70, 72, 73}
=============================================================================
