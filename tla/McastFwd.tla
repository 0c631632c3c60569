------------------------------ MODULE McastFwd ------------------------------
(***************************************************************************)
(* What snooping promises: the interfaces that receive a group's data are, *)
(* after every step, exactly those with a member of the group behind them. *)
(* Members come and go one at a time.                                      *)
(***************************************************************************)
CONSTANTS Group, Iface, Host

VARIABLES
  member,  \* <<group, interface, host>> of every current member
  fwd      \* the interfaces a group's data is forwarded to

WithMember(M) ==
  [g \in Group |-> {i \in Iface : \E h \in Host : <<g, i, h>> \in M}]

FInit == member = {} /\ fwd = WithMember({})

Change(M) == member' = M /\ fwd' = WithMember(M)

FNext == \E m \in Group \X Iface \X Host :
           Change(member \cup {m}) \/ Change(member \ {m})

FSpec == FInit /\ [][FNext]_<<member, fwd>>
=============================================================================
