---------------------------- MODULE SchemaRegistry ----------------------------
(***************************************************************************)
(* The migrations of internal/bootstrap/migrations/registry.go, as written *)
(* there and as sorted by init.  An object is a table, a group of columns  *)
(* or an index; "base" stands for the twelve tables of the base schema all *)
(* being there.  up and down list the objects in the order they are made   *)
(* and dropped, several at once when one statement does it; needs is what  *)
(* the migration was written to bring.                                     *)
(***************************************************************************)
EXTENDS Integers, Sequences, TLC

OrderObjects == {"orders", "refundColumns", "paymentColumns", "keyColumn", "keyIndex"}

(* AutoMigrate(&Order{}) compares the table with the struct as it is in    *)
(* the running program, whatever the migration is about: it makes the      *)
(* table, or adds every column and index the table lacks.                  *)
AutoMigrateOrder ==
  << {"orders"}, {"refundColumns"}, {"paymentColumns"}, {"keyColumn"}, {"keyIndex"} >>

AsWritten == <<
  [version |-> 2024060101, needs |-> {"base"},
   up |-> << {"base"} >>,
   down |-> << {"base"} >>],
  [version |-> 2024063001, needs |-> {"orders", "items"},
   up |-> AutoMigrateOrder \o << {"items"} >>,
   down |-> << {"items"}, OrderObjects >>],
  [version |-> 2024100101, needs |-> {"refundTable"},
   up |-> AutoMigrateOrder \o << {"refundTable"} >>,
   down |-> << {"refundTable"} >>],
  [version |-> 2024071501, needs |-> {"refundColumns"},
   up |-> AutoMigrateOrder,
   down |-> << {"refundColumns"} >>],
  [version |-> 2024120101, needs |-> {"paymentTable", "paymentColumns"},
   up |-> AutoMigrateOrder \o << {"paymentTable"} >>,
   down |-> << {"paymentTable"}, {"paymentColumns"} >>],
  [version |-> 2025022001, needs |-> {"keyColumn", "keyIndex"},
   up |-> AutoMigrateOrder,
   down |-> << {"keyIndex"}, {"keyColumn"} >>] >>

MigrationRegistry == SortSeq(AsWritten, LAMBDA a, b : a.version < b.version)
=============================================================================
