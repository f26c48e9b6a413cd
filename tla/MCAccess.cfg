SPECIFICATION Spec
CHECK_DEADLOCK FALSE
CONSTANTS
  r1 = r1
  r2 = r2
  r3 = r3
  l1 = l1
  l2 = l2
  e1 = e1
  e2 = e2
  p1 = p1
  p2 = p2
  t1 = t1
  t2 = t2
  Registrations = {r1, r2, r3}
  Logins = {l1, l2}
  Emails = {e1, e2}
  Passwords = {p1, p2}
  Tenants = {t1, t2}
  Form <- const_Form
  Body <- const_Body
  NoUser = NoUser
  Requests = {q1, q2}
  Orders = {o1}
  NoTenant = NoTenant
  NoCall = NoCall
  NoLogin = NoLogin
INVARIANTS
  TypeOK
  OneRegistrationPerEmail
  TokensNameTheAccount
  TenantsAreApart
PROPERTIES
  DisabledStaysOut
