----------------------------- MODULE MCAccounts -----------------------------
(***************************************************************************)
(* AdminActions for TLC: the operations on accounts and invites, with one  *)
(* request more, and those on the data of their owners.                    *)
(***************************************************************************)
EXTENDS AdminActions, TLC

AccountOps == {"create_invite", "revoke_invite", "block", "unblock", "promote", "demote",
               "delete_user"}
DataOps == UserOps \cup {"delete_user", "delete_saved_search", "delete_all_saved_searches",
                       "delete_tracked_lot", "purge_snapshots"}
RequestSymmetry == Permutations(Requests)
=============================================================================
