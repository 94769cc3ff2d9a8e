------------------------------ MODULE MCAccess ------------------------------
(* Constants of Access and IPFilter for TLC. *)
EXTENDS Perimeter, TLC

\* Accounts 2 and 3 want the same name.
MCNameOf == ("u1" :> "ann") @@ ("u2" :> "bob") @@ ("u3" :> "bob")

MCMixes == { {"login", "guess", "time"},
             {"login", "guess", "unlock"},
             {"login", "logout", "page", "time"},
             {"login", "register", "create", "delete"},
             {"login", "create", "role", "toggle"},
             {"filter"} }

\* No restriction, and two lists that exclude each other.
MCLists == { {}, {"home"}, {"away"} }

=============================================================================
