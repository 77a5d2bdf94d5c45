------------------------------- MODULE Tenancy -------------------------------
(***************************************************************************)
(* Which tenant a request is for (internal/tenant/resolver.go, store.go;   *)
(* internal/httpserver/middleware_tenant.go, middleware.go).  The tenant   *)
(* is worked out twice: CorrelationIDMiddleware copies the header, or a    *)
(* segment of the path, into the context as it stands; TenantMiddleware,   *)
(* which runs after it, resolves the header against the tenant store and   *)
(* puts the result under another key.  Handlers read the first before the  *)
(* second.                                                                 *)
(***************************************************************************)
CONSTANTS
  Tenants,       \* tenant identifiers
  DefaultTenant, \* cfg.DefaultTenantID
  NoTenant       \* the empty identifier

ASSUME TenancyAssumption ==
  DefaultTenant \in Tenants /\ NoTenant \notin Tenants

Modes == {"single", "multi"}

\* What GetTenant finds for an identifier; unreadable: the query fails.
TenantStatus == {"absent", "enabled", "disabled", "unreadable"}

\* What a request names: the X-Tenant-ID header, and the segment of its path
\* after "tenants".
TenantNames == Tenants \cup {NoTenant}

-----------------------------------------------------------------------------
\* Fault: single-tenant mode is taken to mean the default tenant.
Resolve_SingleIsDefault(mode, table, header) ==
  IF mode = "single" THEN <<"enabled", DefaultTenant>>
  ELSE IF header = NoTenant THEN <<"header_required", NoTenant>>
  ELSE <<table[header], header>>

\* Resolver.Resolve: the status found, and the tenant it was found for.
Resolve(mode, table, header) ==
  LET id == IF header = NoTenant /\ mode = "single" THEN DefaultTenant ELSE header
  IN  IF id = NoTenant THEN <<"header_required", NoTenant>> ELSE <<table[id], id>>

\* The code TenantMiddleware answers with; "none" lets the request through.
TenantError(status) ==
  CASE status = "enabled"  -> "none"
    [] status = "absent"   -> "tenant_not_found"
    [] status = "disabled" -> "tenant_disabled"
    [] OTHER               -> "tenant_required"

TenantErrors == {"tenant_not_found", "tenant_disabled", "tenant_required"}

extractTenantID(header, segment) == IF header # NoTenant THEN header ELSE segment

\* TenantIDFromContext, and the default the handlers fall back to.
HandlerTenant(header, segment, resolved) ==
  LET id == IF extractTenantID(header, segment) # NoTenant
              THEN extractTenantID(header, segment) ELSE resolved
  IN  IF id = NoTenant THEN DefaultTenant ELSE id
=============================================================================
