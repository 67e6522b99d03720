---------------------------- MODULE MCFilesTree ----------------------------
EXTENDS FilesTree, TLC

ConsumerPerms == Permutations(Consumers)
=============================================================================
