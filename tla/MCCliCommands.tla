------------------------------ MODULE MCCliCommands ------------------------------
EXTENDS CliCommands, MCEvidence
==================================================================================
