CONSTANTS
  adv = adv
  pub = pub
  c1 = c1
  p1 = p1
  t1 = t1
  t2 = t2
  t3 = t3
  w1 = w1
  w2 = w2
  q1 = q1
  q2 = q2
  q3 = q3
  token = token
  email = email
  phone = phone
  format = format
  auth = auth
  wallet = wallet
  Transactions = {t1, t2, t3}
  Advertisers = {adv}
  Publishers = {pub}
  Campaigns = {c1}
  PayoutIds = {p1}
  Owner <- MCOwner
  Emails = {email}
  Phones = {phone}
  Requests = {q1, q2, q3}
  MaxFailures = 2
  Payee <- MCPayee
  Workers = {w1, w2}
  Modules = {auth, wallet}
  AuthModule = auth
  Tokens = {token}
  Checks = {q1, q2}
  TTL = 2
  Timeout = 1
  Formats = {format}
  Submissions = {w1, w2}
  Pings = {q1, q2, q3}
  Visitors = {w1, w2}
  FormRequests = {q1, q2}
  MaxTokens = 2
SPECIFICATION Spec
SYMMETRY Symmetry
INVARIANTS LockTypeOK OnlyReversedOrdersDeadlock EndedIsRefused HalvesAgree AdsTxtIsKept UserIsTheSession TokensAreSentOnce
