---------------------------- MODULE MCProposals ----------------------------
EXTENDS Proposals
============================================================================
