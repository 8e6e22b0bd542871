----------------------------- MODULE MCMigrations -----------------------------
EXTENDS Migrations, SchemaRegistry
MCLatest == {2, 5, 6}
MCTarget == {0, 2024060100, 2024063001, 2024080000, 2024120101}
=============================================================================
