SPECIFICATION Spec
CONSTANTS
    u1 = u1  u2 = u2  e1 = e1  e2 = e2  r1 = r1  r2 = r2  r3 = r3  None = None
    Users = {u1, u2}
    Endpoints = {e1}
    Requests = {r1, r2}
PROPERTY RegisterBindsAccount
