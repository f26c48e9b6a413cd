------------------------------- MODULE Tenancy -------------------------------
(***************************************************************************)
(* The tenants, for every module that tells them apart.                    *)
(***************************************************************************)
CONSTANTS Tenants, NoTenant

ASSUME TenancyAssumption == NoTenant \notin Tenants
=============================================================================
