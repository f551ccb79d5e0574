----------------------- MODULE MCRepositoryDeletion -----------------------
EXTENDS RepositoryDeletion

CONSTANTS s1, s2, folder

OneRoot == [s \in Storages |-> folder]
=============================================================================
